---------------------------- MODULE Spec2Model ----------------------------
(***************************************************************************)
(* Model of the screen-observation engine of mcp-mobile-interaction:       *)
(*   utils/observe.ts      performObservation, waitForStableUiTree,        *)
(*                         hashUiTree, getUiTree, getScreenshot, delay     *)
(*   utils/ui-filter.ts    filterUiElements                                *)
(*   tools/wait-for-stable.ts, tools/wait-for-element.ts,                  *)
(*   tools/tap-element.ts  the three tools built on the polling loops      *)
(*                                                                         *)
(* JavaScript strings are modelled as sequences of one-character strings,  *)
(* so that trimming, lower-casing, substring search and the signature's    *)
(* concatenation are computed as the code computes them.  Time is the      *)
(* value of Date.now() in milliseconds.  Every await is a separate step;   *)
(* the synchronous code between two awaits is one step.                    *)
(***************************************************************************)
EXTENDS Integers, Sequences, FiniteSets, TLC

(***************************************************************************)
(* Bounds of the model (not program constants).                            *)
(***************************************************************************)
\* shortest and longest time one device query (tree dump, screenshot) takes, in ms
MinCaptureMs == 1500
MaxCaptureMs == 4000
\* longest element list handed to filterUiElements on its own
MaxFilterLen == 3
\* longest element list handed to hashUiTree on its own
MaxHashLen == 2
\* most devices one enumeration lists
MaxDevices == 3

(***************************************************************************)
(* Program constants.                                                      *)
(***************************************************************************)
DefaultPollMs == 500
DefaultTimeoutMs == 10000
DefaultObserveDelayMs == 500
TapElementPollMs == 500
StatusBandPx == 60
SettleDelayMs == 800

\* Optional values: undefined (an omitted argument, an unset field) is the
\* empty tuple, a present value v is the one-element tuple <<v>>.
Undefined == <<>>
Some(v) == <<v>>

(***************************************************************************)
(* Strings.                                                                *)
(***************************************************************************)
Digit(d) ==
  CASE d = 0 -> "0" [] d = 1 -> "1" [] d = 2 -> "2" [] d = 3 -> "3"
    [] d = 4 -> "4" [] d = 5 -> "5" [] d = 6 -> "6" [] d = 7 -> "7"
    [] d = 8 -> "8" [] d = 9 -> "9"

RECURSIVE NatToString(_)
NatToString(n) ==
  IF n < 10 THEN <<Digit(n)>>
  ELSE NatToString(n \div 10) \o <<Digit(n % 10)>>

\* `${n}` for an integer n
NumToString(n) ==
  IF n < 0 THEN <<"-">> \o NatToString(0 - n) ELSE NatToString(n)

\* `${b}` for a boolean b
BoolToString(b) ==
  IF b THEN <<"t", "r", "u", "e">> ELSE <<"f", "a", "l", "s", "e">>

IsWhitespace(c) == c \in {" ", "\t", "\n", "\r"}

RECURSIVE TrimStart(_)
TrimStart(s) ==
  IF s = <<>> THEN <<>>
  ELSE IF IsWhitespace(Head(s)) THEN TrimStart(Tail(s)) ELSE s

RECURSIVE TrimEnd(_)
TrimEnd(s) ==
  IF s = <<>> THEN <<>>
  ELSE IF IsWhitespace(s[Len(s)]) THEN TrimEnd(SubSeq(s, 1, Len(s) - 1))
       ELSE s

\* String.prototype.trim
Trim(s) == TrimEnd(TrimStart(s))

LowerChar(c) ==
  CASE c = "A" -> "a" [] c = "B" -> "b" [] c = "H" -> "h" [] c = "K" -> "k"
    [] c = "L" -> "l" [] c = "O" -> "o" [] c = "T" -> "t" [] c = "V" -> "v"
    [] OTHER -> c

\* String.prototype.toLowerCase (on the alphabet the model uses)
ToLowerCase(s) == [i \in 1..Len(s) |-> LowerChar(s[i])]

\* String.prototype.includes
Includes(s, sub) ==
  \E i \in 0..(Len(s) - Len(sub)) : SubSeq(s, i + 1, i + Len(sub)) = sub

\* Array.prototype.join
RECURSIVE Join(_, _)
Join(parts, sep) ==
  IF parts = <<>> THEN <<>>
  ELSE IF Len(parts) = 1 THEN parts[1]
  ELSE parts[1] \o sep \o Join(Tail(parts), sep)

(***************************************************************************)
(* UI elements and the trees the device may report.                        *)
(***************************************************************************)
Bounds(x, y, w, h) == [x |-> x, y |-> y, width |-> w, height |-> h]

UiElement(type, text, b, clickable) ==
  [type |-> type, text |-> text, bounds |-> b,
   center_x |-> (2 * b.x + b.width + 1) \div 2,
   center_y |-> (2 * b.y + b.height + 1) \div 2,
   clickable |-> clickable]

\* status-bar clock at two different minutes: y < 60 and height < 60
ElClock1 == UiElement(<<"T">>, <<"9", ":", "4", "1">>, Bounds(0, 10, 80, 40), FALSE)
ElClock2 == UiElement(<<"T">>, <<"9", ":", "4", "2">>, Bounds(0, 10, 80, 40), FALSE)
\* status-bar icon without a label: y < 60 and height < 60
ElBattery == UiElement(<<"V">>, <<>>, Bounds(500, 10, 30, 40), FALSE)
\* a button below the status band
ElOk == UiElement(<<"B">>, <<"O", "k">>, Bounds(0, 100, 540, 50), TRUE)
\* a full-screen container: y < 60 but height >= 60, blank text, not clickable
ElRoot == UiElement(<<"V">>, <<" ">>, Bounds(0, 0, 540, 960), FALSE)
\* a label below the status band
ElHello == UiElement(<<"T">>, <<"H", "e", "l", "l", "o">>, Bounds(0, 200, 540, 50), FALSE)

TreeOk1 == <<ElClock1, ElRoot, ElOk>>
TreeOk2 == <<ElClock2, ElRoot, ElOk>>
TreeHello == <<ElClock1, ElRoot, ElHello, ElOk>>
TreeBar == <<ElBattery>>
TreeEmpty == <<>>

\* android.getUiTree never resolves with an empty list (it throws instead);
\* ios.getUiTree resolves with whatever parseIdbDescribeAll produced.
DeviceTrees(platform) ==
  IF platform = "android"
  THEN {TreeOk1, TreeOk2, TreeHello, TreeBar}
  ELSE {TreeOk1, TreeOk2, TreeHello, TreeBar, TreeEmpty}

\* the result of compressScreenshot
Shot == [base64 |-> "img", width |-> 540, height |-> 960]

(***************************************************************************)
(* utils/ui-filter.ts                                                      *)
(***************************************************************************)
\* the text tested without trimming
MutFilterKeeps(el) == el.text # <<>> \/ el.clickable

FilterKeeps(el) == Trim(el.text) # <<>> \/ el.clickable

\* the filter applied whatever includeAll says
MutFilterUiElements(elements, includeAll) == SelectSeq(elements, FilterKeeps)

filterUiElements(elements, includeAll) ==
  IF includeAll THEN elements ELSE SelectSeq(elements, FilterKeeps)

(***************************************************************************)
(* utils/observe.ts : hashUiTree                                           *)
(***************************************************************************)
\* the band test on the vertical position alone
MutIsStableElement(el) == ~(el.bounds.y < StatusBandPx)

IsStableElement(el) ==
  ~(el.bounds.y < StatusBandPx /\ el.bounds.height < StatusBandPx)

ElementLine(el) ==
  el.type \o <<"|">> \o el.text \o <<"|">>
    \o NumToString(el.bounds.x) \o <<",">> \o NumToString(el.bounds.y)
    \o <<",">> \o NumToString(el.bounds.width) \o <<",">>
    \o NumToString(el.bounds.height) \o <<"|">> \o BoolToString(el.clickable)

hashUiTree(elements) ==
  LET stable == SelectSeq(elements, IsStableElement)
  IN  Join([i \in 1..Len(stable) |-> ElementLine(stable[i])], <<"\n">>)

(***************************************************************************)
(* State.                                                                  *)
(***************************************************************************)
VARIABLES
  tool,            \* the entry point of this run
  args,            \* its arguments
  now,             \* Date.now()
  \* --- waitForStableUiTree
  wpc,             \* "idle", "capturing", "sleeping", "returned", "threw"
  pollIntervalMs,  \* parameter
  timeoutMs,       \* parameter
  start,           \* local
  previousHash,    \* local
  previousTree,    \* local
  wret,            \* the value returned
  wvia,            \* the return statement taken: "converged" or "timeout"
  nCaptures,       \* captures completed by this call
  lastCaps,        \* the trees of the last (up to three) captures of this call
  \* --- performObservation
  opts,            \* parameter (Undefined while not called)
  opc,             \* "idle", "stabilizing", "delaying", "capturing", "returned", "threw"
  waited,          \* the wait performed: "none", "stabilize", "delay"
  treeSt,          \* the tree capture of Promise.all: "skipped", "pending", "ok", "failed"
  shotSt,          \* the screenshot capture of Promise.all, likewise
  treeVal,         \* the tree it resolved with
  result,          \* the value returned
  \* --- the tool handler
  tpc,             \* position in the handler
  reply,           \* what the handler returned
  lstart,          \* start of the handler's polling loop
  lastTree,        \* wait_for_element: lastTree; tap_element: the tree of
                   \* the last capture (history)
  matches,         \* wait_for_element: matches of the capture that matched
  target,          \* tap_element: target
  taps,            \* tap commands issued to the device, as <<x, y>>
  \* --- the platform layer
  treeCalls,       \* calls of getUiTree started
  shotCalls,       \* calls of platform screenshot started
  failure,         \* the device query that failed, or "none"
  attempts,        \* android.getUiTree: the strategies started, in order
  commands,        \* the commands handed to exec by the platform function
  \* --- the device
  dumpFile,        \* /sdcard/window_dump.xml: whether it exists, and the
                   \* dump that wrote it or the rm that removed it
  rmPending,       \* the rm commands started (not awaited) and not yet run
  peer,            \* a second getUiTree call on the same device: the
                   \* position of its file strategy, or "none"
  \* --- history of performObservation
  settled,         \* the tree waitForStableUiTree resolved with, and the
                   \* number of getUiTree calls started until then
  filterArgs       \* the calls of filterUiElements it made

wvars == <<wpc, pollIntervalMs, timeoutMs, start, previousHash, previousTree,
           wret, wvia, nCaptures, lastCaps>>
ovars == <<opts, opc, waited, treeSt, shotSt, treeVal, result>>
lvars == <<lstart, lastTree, matches, target, taps>>
tvars == <<tpc, reply, lvars>>
pvars == <<attempts, commands>>
dvars == <<dumpFile, rmPending, peer>>
hvars == <<settled, filterArgs>>
vars == <<tool, args, now, wvars, ovars, tvars, treeCalls, shotCalls, failure,
          pvars, hvars, dvars>>

Modes == {"none", "ui_tree", "screenshot", "both"}
Platforms == {"android", "ios"}
CaptureTimes == {MinCaptureMs, MaxCaptureMs}

\* a ?? b
Coalesce(a, b) == IF a = Undefined THEN b ELSE a[1]

\* the time after which setTimeout(f, ms) fires: Node raises a delay below 1 to 1
TimerMs(ms) == IF ms < 1 THEN 1 ELSE ms

(***************************************************************************)
(* utils/observe.ts : waitForStableUiTree                                  *)
(***************************************************************************)
\* the deadline test with <= in place of <
MutLoopCond(t, t0, timeout) == t - t0 <= timeout

\* the while condition
LoopCond(t, t0, timeout) == t - t0 < timeout

\* the convergence test without its guard against the initial empty hash
MutConverged(hash, prevHash) == hash = prevHash

\* the convergence test
Converged(hash, prevHash) == hash = prevHash /\ prevHash # <<>>

\* the timeout branch returning a fresh empty list
MutTimeoutReturn(prevTree) == <<>>

\* the value returned when the deadline is reached
TimeoutReturn(prevTree) == prevTree

\* the convergence branch returning the previous capture
MutConvergedReturn(tree, prevTree) == prevTree

\* the value returned on convergence
ConvergedReturn(tree, prevTree) == tree

\* evaluate the while condition at time t: start a capture or return
WaitLoopHead(t) ==
  IF LoopCond(t, start', timeoutMs')
  THEN /\ wpc' = "capturing"
       /\ treeCalls' = treeCalls + 1
       /\ wret' = Undefined
       /\ wvia' = "none"
  ELSE /\ wpc' = "returned"
       /\ wret' = Some(TimeoutReturn(previousTree'))
       /\ wvia' = "timeout"
       /\ treeCalls' = treeCalls

\* the call at time t: lines 76-80, up to the first await
WaitCall(poll, timeout, t) ==
  /\ pollIntervalMs' = poll
  /\ timeoutMs' = timeout
  /\ start' = t
  /\ previousHash' = <<>>
  /\ previousTree' = <<>>
  /\ nCaptures' = 0
  /\ lastCaps' = <<>>
  /\ WaitLoopHead(t)

\* the call is over and its value consumed: the locals are gone
WaitExit ==
  /\ wpc' = "idle"
  /\ pollIntervalMs' = 0
  /\ timeoutMs' = 0
  /\ start' = 0
  /\ previousHash' = <<>>
  /\ previousTree' = <<>>
  /\ wret' = Undefined
  /\ wvia' = "none"
  /\ nCaptures' = 0
  /\ lastCaps' = <<>>

Last3(s) == IF Len(s) > 3 THEN SubSeq(s, Len(s) - 2, Len(s)) ELSE s

\* getUiTree resolves: lines 82-90, up to the await of delay
WaitCaptureDone ==
  /\ wpc = "capturing"
  /\ \E d \in CaptureTimes, tree \in DeviceTrees(args.platform) :
       LET hash == hashUiTree(tree) IN
       /\ now' = now + d
       /\ nCaptures' = nCaptures + 1
       /\ lastCaps' = Last3(Append(lastCaps, tree))
       /\ IF Converged(hash, previousHash)
          THEN /\ wpc' = "returned"
               /\ wret' = Some(ConvergedReturn(tree, previousTree))
               /\ wvia' = "converged"
               /\ UNCHANGED <<previousHash, previousTree>>
          ELSE /\ wpc' = "sleeping"
               /\ previousHash' = hash
               /\ previousTree' = tree
               /\ UNCHANGED <<wret, wvia>>
  /\ UNCHANGED <<tool, args, dvars, pvars, hvars, pollIntervalMs, timeoutMs, start, ovars, tvars,
                 treeCalls, shotCalls, failure>>

\* the rejection caught and answered with the previous capture
MutWaitCaptureFail ==
  /\ wpc = "capturing"
  /\ \E d \in CaptureTimes : now' = now + d
  /\ wpc' = "returned"
  /\ wret' = Some(previousTree)
  /\ wvia' = "timeout"
  /\ failure' = "tree"
  /\ UNCHANGED <<tool, args, dvars, pvars, hvars, pollIntervalMs, timeoutMs, start, previousHash,
                 previousTree, nCaptures, lastCaps, ovars, tvars,
                 treeCalls, shotCalls>>

\* getUiTree rejects: the exception leaves waitForStableUiTree
WaitCaptureFail ==
  /\ wpc = "capturing"
  /\ \E d \in CaptureTimes : now' = now + d
  /\ wpc' = "threw"
  /\ failure' = "tree"
  /\ UNCHANGED <<tool, args, dvars, pvars, hvars, pollIntervalMs, timeoutMs, start, previousHash,
                 previousTree, wret, wvia, nCaptures, lastCaps, ovars, tvars,
                 treeCalls, shotCalls>>

\* delay(pollIntervalMs) resolves: back to the while condition
WaitDelayDone ==
  /\ wpc = "sleeping"
  /\ now' = now + TimerMs(pollIntervalMs)
  /\ UNCHANGED <<pollIntervalMs, timeoutMs, start, previousHash, previousTree,
                 nCaptures, lastCaps>>
  /\ WaitLoopHead(now')
  /\ UNCHANGED <<tool, args, dvars, pvars, hvars, ovars, tvars, shotCalls, failure>>

(***************************************************************************)
(* utils/observe.ts : performObservation                                   *)
(***************************************************************************)
\* truthiness of a boolean-or-undefined option
TruthyFlag(v) == v = Some(TRUE)

\* options.delayMs && options.delayMs > 0
WantDelay(delayMs) == delayMs # Undefined /\ delayMs[1] # 0 /\ delayMs[1] > 0

\* the tree test treating an empty array as absent
MutTruthyTree(tree) == tree # Undefined /\ Len(tree[1]) > 0

\* if (tree): undefined when the capture was not requested, otherwise an
\* array, and every array is truthy
TruthyTree(tree) == tree # Undefined

\* if (screenshot): undefined when not requested, otherwise an object
TruthyShot(screenshot) == screenshot # Undefined

\* the tree requested by mode ui_tree only
MutWantTree(mode) == mode = "ui_tree"

WantTree(mode) == mode = "ui_tree" \/ mode = "both"

\* the screenshot requested by every mode but none
MutWantScreenshot(mode) == mode # "none"

WantScreenshot(mode) == mode = "screenshot" \/ mode = "both"

\* the flag passed on without the negation
MutIncludeAll(filterUi) == Coalesce(filterUi, TRUE)

\* !(options.filterUi ?? true)
IncludeAll(filterUi) == ~Coalesce(filterUi, TRUE)

\* the early return skipped when stabilize is set
MutModeIsNone(o) == o.mode = "none" /\ ~TruthyFlag(o.stabilize)

\* line 27
ModeIsNone(o) == o.mode = "none"

\* the two tests of lines 30-39 in the opposite order
MutWaitPolicy(o) ==
  IF WantDelay(o.delayMs) THEN "delay"
  ELSE IF TruthyFlag(o.stabilize) THEN "stabilize"
  ELSE "none"

\* the wait chosen by lines 30-39: "stabilize", "delay" or "none"
WaitPolicy(o) ==
  IF TruthyFlag(o.stabilize) THEN "stabilize"
  ELSE IF WantDelay(o.delayMs) THEN "delay"
  ELSE "none"

StabilizePollArg(o) == Coalesce(o.stabilizePollMs, DefaultPollMs)
StabilizeTimeoutArg(o) == Coalesce(o.stabilizeTimeoutMs, DefaultTimeoutMs)

\* the screenshot left for after the tree when both are wanted
MutStartCaptures(o) ==
  /\ opc' = "capturing"
  /\ treeSt' = IF WantTree(o.mode) THEN "pending" ELSE "skipped"
  /\ shotSt' = IF WantScreenshot(o.mode) /\ ~WantTree(o.mode)
               THEN "pending" ELSE "skipped"
  /\ treeCalls' = treeCalls + (IF WantTree(o.mode) THEN 1 ELSE 0)
  /\ shotCalls' = shotCalls + (IF WantScreenshot(o.mode) /\ ~WantTree(o.mode)
                               THEN 1 ELSE 0)
  /\ treeVal' = Undefined
  /\ result' = Undefined

\* lines 41-53: both captures are started in the evaluation of the array
\* literal, before the await of Promise.all
StartCaptures(o) ==
  /\ opc' = "capturing"
  /\ treeSt' = IF WantTree(o.mode) THEN "pending" ELSE "skipped"
  /\ shotSt' = IF WantScreenshot(o.mode) THEN "pending" ELSE "skipped"
  /\ treeCalls' = treeCalls + (IF WantTree(o.mode) THEN 1 ELSE 0)
  /\ shotCalls' = shotCalls + (IF WantScreenshot(o.mode) THEN 1 ELSE 0)
  /\ treeVal' = Undefined
  /\ result' = Undefined

\* the call of performObservation(o) at time t: lines 27-39, up to the first
\* await.  Determines ovars, hvars, wvars, treeCalls and shotCalls.
ObsCall(o, t) ==
  /\ opts' = o
  /\ settled' = Undefined
  /\ filterArgs' = <<>>
  /\ IF ModeIsNone(o)
     THEN /\ opc' = "returned"
          /\ result' = Undefined
          /\ waited' = "none"
          /\ UNCHANGED <<treeSt, shotSt, treeVal, wvars, treeCalls, shotCalls>>
     ELSE /\ waited' = WaitPolicy(o)
          /\ CASE WaitPolicy(o) = "stabilize" ->
                    /\ opc' = "stabilizing"
                    /\ WaitCall(StabilizePollArg(o), StabilizeTimeoutArg(o), t)
                    /\ UNCHANGED <<treeSt, shotSt, treeVal, result, shotCalls>>
               [] WaitPolicy(o) = "delay" ->
                    /\ opc' = "delaying"
                    /\ UNCHANGED <<treeSt, shotSt, treeVal, result, wvars,
                                   treeCalls, shotCalls>>
               [] OTHER ->
                    /\ StartCaptures(o)
                    /\ UNCHANGED wvars

\* waitForStableUiTree returned: its value is dropped, the captures start
ObsStableReturned ==
  /\ opc = "stabilizing"
  /\ wpc = "returned"
  /\ WaitExit
  /\ StartCaptures(opts)
  /\ settled' = Some([tree |-> wret[1], calls |-> treeCalls])
  /\ UNCHANGED <<tool, args, dvars, pvars, filterArgs, now, opts, waited, tvars, failure>>

\* waitForStableUiTree threw: the exception leaves performObservation
ObsStableThrew ==
  /\ opc = "stabilizing"
  /\ wpc = "threw"
  /\ WaitExit
  /\ opc' = "threw"
  /\ UNCHANGED <<tool, args, dvars, pvars, hvars, now, opts, waited, treeSt, shotSt, treeVal,
                 result, tvars, treeCalls, shotCalls, failure>>

\* delay(options.delayMs) resolves
ObsDelayDone ==
  /\ opc = "delaying"
  /\ now' = now + TimerMs(opts.delayMs[1])
  /\ StartCaptures(opts)
  /\ UNCHANGED <<tool, args, dvars, pvars, hvars, wvars, opts, waited, tvars, failure>>

\* getUiTree of the fan-out resolves
ObsTreeDone ==
  /\ treeSt = "pending"
  /\ \E d \in CaptureTimes, tree \in DeviceTrees(opts.platform) :
       /\ now' = now + d
       /\ treeVal' = Some(tree)
  /\ treeSt' = "ok"
  /\ UNCHANGED <<tool, args, dvars, pvars, hvars, wvars, opts, opc, waited, shotSt, result, tvars,
                 treeCalls, shotCalls, failure>>

\* the rejection taken as a capture that yields nothing
MutObsTreeFail ==
  /\ treeSt = "pending"
  /\ \E d \in CaptureTimes : now' = now + d
  /\ treeSt' = "skipped"
  /\ failure' = IF failure = "none" THEN "tree" ELSE failure
  /\ UNCHANGED <<tool, args, dvars, pvars, hvars, wvars, opts, opc, waited, shotSt, treeVal,
                 result, tvars, treeCalls, shotCalls>>

\* getUiTree of the fan-out rejects: Promise.all rejects at once
ObsTreeFail ==
  /\ treeSt = "pending"
  /\ \E d \in CaptureTimes : now' = now + d
  /\ treeSt' = "failed"
  /\ opc' = IF opc = "capturing" THEN "threw" ELSE opc
  /\ failure' = IF failure = "none" THEN "tree" ELSE failure
  /\ UNCHANGED <<tool, args, dvars, pvars, hvars, wvars, opts, waited, shotSt, treeVal, result,
                 tvars, treeCalls, shotCalls>>

\* getScreenshot of the fan-out resolves (platform screenshot, then compression)
ObsShotDone ==
  /\ shotSt = "pending"
  /\ \E d \in CaptureTimes : now' = now + d
  /\ shotSt' = "ok"
  /\ UNCHANGED <<tool, args, dvars, pvars, hvars, wvars, opts, opc, waited, treeSt, treeVal, result,
                 tvars, treeCalls, shotCalls, failure>>

\* getScreenshot of the fan-out rejects: Promise.all rejects at once
ObsShotFail ==
  /\ shotSt = "pending"
  /\ \E d \in CaptureTimes : now' = now + d
  /\ shotSt' = "failed"
  /\ opc' = IF opc = "capturing" THEN "threw" ELSE opc
  /\ failure' = IF failure = "none" THEN "screenshot" ELSE failure
  /\ UNCHANGED <<tool, args, dvars, pvars, hvars, wvars, opts, waited, treeSt, treeVal, result,
                 tvars, treeCalls, shotCalls>>

\* the tree taken from the detector's return value when it ran
MutTreeOfFanOut ==
  IF settled # Undefined THEN Some(settled[1].tree)
  ELSE IF treeSt = "ok" THEN treeVal ELSE Undefined

\* the values Promise.all resolves with
TreeOfFanOut == IF treeSt = "ok" THEN treeVal ELSE Undefined
ShotOfFanOut == IF shotSt = "ok" THEN Some(Shot) ELSE Undefined

\* lines 55-62
BuildResult(tree, screenshot, filterUi) ==
  [uiTree |-> IF TruthyTree(tree)
              THEN Some(filterUiElements(tree[1], IncludeAll(filterUi)))
              ELSE Undefined,
   screenshot |-> IF TruthyShot(screenshot) THEN screenshot ELSE Undefined]

\* the calls of filterUiElements made by lines 55-57
FilterCalls(tree, filterUi) ==
  IF TruthyTree(tree)
  THEN << [elements |-> tree[1], includeAll |-> IncludeAll(filterUi)] >>
  ELSE << >>

\* Promise.all resolves: every requested capture has resolved
ObsJoin ==
  /\ opc = "capturing"
  /\ treeSt \in {"ok", "skipped"}
  /\ shotSt \in {"ok", "skipped"}
  /\ opc' = "returned"
  /\ result' = Some(BuildResult(TreeOfFanOut, ShotOfFanOut, opts.filterUi))
  /\ filterArgs' = FilterCalls(TreeOfFanOut, opts.filterUi)
  /\ UNCHANGED <<tool, args, dvars, pvars, settled, now, wvars, opts, waited, treeSt, shotSt, treeVal,
                 tvars, treeCalls, shotCalls, failure>>

(***************************************************************************)
(* A direct call of performObservation (as every action tool makes after   *)
(* its device action).                                                     *)
(***************************************************************************)
ObserveCall ==
  /\ tool = "observe"
  /\ tpc = "start"
  /\ ObsCall(args, now)
  /\ tpc' = "observing"
  /\ UNCHANGED <<lvars, tool, args, dvars, pvars, now, reply, failure>>

ObserveReturn ==
  /\ tool = "observe"
  /\ tpc = "observing"
  /\ opc \in {"returned", "threw"}
  /\ tpc' = "done"
  /\ reply' = IF opc = "threw" THEN [kind |-> "threw"]
              ELSE [kind |-> "returned", observation |-> result]
  /\ UNCHANGED <<lvars, tool, args, dvars, pvars, hvars, now, wvars, ovars, treeCalls, shotCalls, failure>>

(***************************************************************************)
(* tools/wait-for-stable.ts                                                *)
(***************************************************************************)
StableToolCall ==
  /\ tool = "wait_for_stable"
  /\ tpc = "start"
  /\ WaitCall(Coalesce(args.poll_interval_ms, DefaultPollMs),
              Coalesce(args.timeout_ms, DefaultTimeoutMs), now)
  /\ tpc' = "waiting"
  /\ UNCHANGED <<lvars, tool, args, dvars, pvars, hvars, now, ovars, reply, shotCalls, failure>>

\* lines 53-65: the tree is filtered and put in the content
StableToolReturned ==
  /\ tool = "wait_for_stable"
  /\ tpc = "waiting"
  /\ wpc = "returned"
  /\ LET filtered == filterUiElements(wret[1], IncludeAll(args.filter_ui)) IN
       reply' = [kind |-> "content", isError |-> FALSE, uiTree |-> filtered,
                 screenshot |-> Undefined]
  /\ IF TruthyFlag(args.include_screenshot)
     THEN /\ tpc' = "screenshot"
          /\ shotCalls' = shotCalls + 1
     ELSE /\ tpc' = "done"
          /\ UNCHANGED shotCalls
  /\ WaitExit
  /\ UNCHANGED <<lvars, tool, args, dvars, pvars, hvars, now, ovars, treeCalls, failure>>

StableToolThrew ==
  /\ tool = "wait_for_stable"
  /\ tpc = "waiting"
  /\ wpc = "threw"
  /\ WaitExit
  /\ tpc' = "done"
  /\ reply' = [kind |-> "threw"]
  /\ UNCHANGED <<lvars, tool, args, dvars, pvars, hvars, now, ovars, treeCalls, shotCalls, failure>>

\* lines 66-80: screenshot and compressScreenshot resolve
StableToolShotDone ==
  /\ tool = "wait_for_stable"
  /\ tpc = "screenshot"
  /\ \E d \in CaptureTimes : now' = now + d
  /\ tpc' = "done"
  /\ reply' = [reply EXCEPT !.screenshot = Some(Shot)]
  /\ UNCHANGED <<lvars, tool, args, dvars, pvars, hvars, wvars, ovars, treeCalls, shotCalls, failure>>

StableToolShotFail ==
  /\ tool = "wait_for_stable"
  /\ tpc = "screenshot"
  /\ \E d \in CaptureTimes : now' = now + d
  /\ tpc' = "done"
  /\ reply' = [kind |-> "threw"]
  /\ failure' = "screenshot"
  /\ UNCHANGED <<lvars, tool, args, dvars, pvars, hvars, wvars, ovars, treeCalls, shotCalls>>

(***************************************************************************)
(* tools/wait-for-element.ts                                               *)
(***************************************************************************)
\* the two text criteria as alternatives
MutWfeMatch(el, a) ==
  /\ \/ a.text_exact = Undefined /\ a.text_contains = Undefined
     \/ a.text_exact # Undefined /\ el.text = a.text_exact[1]
     \/ a.text_contains # Undefined /\
          Includes(ToLowerCase(el.text), ToLowerCase(a.text_contains[1]))
  /\ a.type_contains # Undefined =>
       Includes(ToLowerCase(el.type), ToLowerCase(a.type_contains[1]))
  /\ a.clickable # Undefined => el.clickable = a.clickable[1]

\* the filter callback of lines 75-90
WfeMatch(el, a) ==
  /\ a.text_exact # Undefined => el.text = a.text_exact[1]
  /\ a.text_contains # Undefined =>
       Includes(ToLowerCase(el.text), ToLowerCase(a.text_contains[1]))
  /\ a.type_contains # Undefined =>
       Includes(ToLowerCase(el.type), ToLowerCase(a.type_contains[1]))
  /\ a.clickable # Undefined => el.clickable = a.clickable[1]

WfeMatches(tree, a) == SelectSeq(tree, LAMBDA el : WfeMatch(el, a))

WfeTimeout(a) == Coalesce(a.timeout_ms, DefaultTimeoutMs)
WfePollInterval(a) == Coalesce(a.poll_interval_ms, DefaultPollMs)

\* the deadline test with <= in place of <
MutWfeLoopCond(t, t0, timeout) == t - t0 <= timeout

\* the while condition of line 68
WfeLoopCond(t, t0, timeout) == t - t0 < timeout

\* the options of the observation after a match, lines 93-99
WfeObserveOptions(a) ==
  [mode |-> Coalesce(a.observe, "none"), platform |-> a.platform,
   delayMs |-> Some(0), stabilize |-> Some(FALSE),
   stabilizePollMs |-> Undefined, stabilizeTimeoutMs |-> Undefined,
   filterUi |-> Undefined]

\* evaluate the while condition at time t: start a capture, or return the
\* timeout error of lines 111-121
WfeLoopHead(t) ==
  IF WfeLoopCond(t, lstart', WfeTimeout(args))
  THEN /\ tpc' = "polling"
       /\ treeCalls' = treeCalls + 1
       /\ UNCHANGED reply
  ELSE /\ tpc' = "done"
       /\ reply' = [kind |-> "content", isError |-> TRUE,
                    uiTree |-> filterUiElements(lastTree', FALSE)]
       /\ UNCHANGED treeCalls

WfeCall ==
  /\ tool = "wait_for_element"
  /\ tpc = "start"
  /\ lstart' = now
  /\ lastTree' = <<>>
  /\ WfeLoopHead(now)
  /\ UNCHANGED <<tool, args, dvars, pvars, hvars, now, wvars, ovars, matches, target, taps,
                 shotCalls, failure>>

\* getUiTree resolves: lines 74-108, up to the next await
WfeCaptureDone ==
  /\ tool = "wait_for_element"
  /\ tpc = "polling"
  /\ \E d \in CaptureTimes, tree \in DeviceTrees(args.platform) :
       /\ now' = now + d
       /\ lastTree' = tree
       /\ IF Len(WfeMatches(tree, args)) > 0
          THEN /\ matches' = WfeMatches(tree, args)
               /\ ObsCall(WfeObserveOptions(args), now')
               /\ tpc' = "observing"
          ELSE /\ tpc' = "sleeping"
               /\ UNCHANGED <<matches, wvars, ovars, hvars, treeCalls,
                              shotCalls>>
  /\ UNCHANGED <<tool, args, dvars, pvars, reply, lstart, target, taps, failure>>

\* getUiTree rejects: the exception leaves the handler
WfeCaptureFail ==
  /\ tool = "wait_for_element"
  /\ tpc = "polling"
  /\ \E d \in CaptureTimes : now' = now + d
  /\ tpc' = "done"
  /\ reply' = [kind |-> "threw"]
  /\ failure' = "tree"
  /\ UNCHANGED <<tool, args, dvars, pvars, hvars, wvars, ovars, lvars, treeCalls, shotCalls>>

\* the timer of line 108 fires: back to the while condition
WfeDelayDone ==
  /\ tool = "wait_for_element"
  /\ tpc = "sleeping"
  /\ now' = now + TimerMs(WfePollInterval(args))
  /\ UNCHANGED lvars
  /\ WfeLoopHead(now')
  /\ UNCHANGED <<tool, args, dvars, pvars, hvars, wvars, ovars, shotCalls, failure>>

\* performObservation settles: lines 101-105
WfeObsReturn ==
  /\ tool = "wait_for_element"
  /\ tpc = "observing"
  /\ opc \in {"returned", "threw"}
  /\ tpc' = "done"
  /\ reply' = IF opc = "threw" THEN [kind |-> "threw"]
              ELSE [kind |-> "content", isError |-> FALSE,
                    matches |-> matches, observation |-> result]
  /\ UNCHANGED <<tool, args, dvars, pvars, hvars, now, wvars, ovars, lvars, treeCalls, shotCalls,
                 failure>>

(***************************************************************************)
(* tools/tap-element.ts                                                    *)
(***************************************************************************)
\* !s for an optional string: undefined and "" are falsy
FalsyString(s) == s = Undefined \/ s = Some(<<>>)

\* matchElement
TapMatch(el, a) ==
  /\ a.text_exact # Undefined => el.text = a.text_exact[1]
  /\ a.text_contains # Undefined =>
       Includes(ToLowerCase(el.text), ToLowerCase(a.text_contains[1]))

TapMatches(tree, a) == SelectSeq(tree, LAMBDA el : TapMatch(el, a))

\* a negative index counted from the end of the array
MutArrayGet(arr, i) ==
  IF i >= 0 /\ i < Len(arr) THEN Some(arr[i + 1])
  ELSE IF i < 0 /\ 0 - i <= Len(arr) THEN Some(arr[Len(arr) + i + 1])
  ELSE Undefined

\* arr[i] of JavaScript: undefined outside 0 .. length-1
ArrayGet(arr, i) ==
  IF i >= 0 /\ i < Len(arr) THEN Some(arr[i + 1]) ELSE Undefined

TapTargetIndex(a) == Coalesce(a.index, 0)
TapTimeout(a) == Coalesce(a.timeout_ms, DefaultTimeoutMs)

\* the loop given up at half of the timeout
MutTapLoopCond(t, t0, timeout) == 2 * (t - t0) < timeout

\* the while condition of the wait_for loop
TapLoopCond(t, t0, timeout) == t - t0 < timeout

\* the options of the observation after the tap
TapObserveOptions(a) ==
  [mode |-> Coalesce(a.observe, "none"), platform |-> a.platform,
   delayMs |-> Some(Coalesce(a.observe_delay_ms, DefaultObserveDelayMs)),
   stabilize |-> a.observe_stabilize,
   stabilizePollMs |-> Undefined, stabilizeTimeoutMs |-> Undefined,
   filterUi |-> Undefined]

TapErrorReply(why) == [kind |-> "content", isError |-> TRUE, error |-> why]

\* the code after the search: with a target the tap command is issued,
\* reading center_x of an undefined target throws a TypeError
TapIssue(tgt) ==
  IF tgt = Undefined
  THEN /\ tpc' = "done"
       /\ reply' = [kind |-> "threw"]
       /\ UNCHANGED taps
  ELSE /\ tpc' = "tapping"
       /\ taps' = Append(taps, <<tgt[1].center_x, tgt[1].center_y>>)
       /\ UNCHANGED reply

\* the end of the wait_for loop: if (!target) the timeout error, else the tap
TapAfterLoop(tgt) ==
  IF tgt = Undefined
  THEN /\ tpc' = "done"
       /\ reply' = TapErrorReply("timeout")
       /\ UNCHANGED taps
  ELSE TapIssue(tgt)

\* evaluate the while condition at time t
TapLoopHead(t) ==
  IF TapLoopCond(t, lstart', TapTimeout(args))
  THEN /\ tpc' = "polling"
       /\ treeCalls' = treeCalls + 1
       /\ UNCHANGED <<reply, taps>>
  ELSE /\ TapAfterLoop(target')
       /\ UNCHANGED treeCalls

TapCall ==
  /\ tool = "tap_element"
  /\ tpc = "start"
  /\ target' = Undefined
  /\ IF FalsyString(args.text_contains) /\ FalsyString(args.text_exact)
     THEN /\ tpc' = "done"
          /\ reply' = TapErrorReply("no criterion")
          /\ UNCHANGED <<lstart, treeCalls, taps>>
     ELSE IF TruthyFlag(args.wait_for)
     THEN /\ lstart' = now
          /\ TapLoopHead(now)
     ELSE /\ tpc' = "single"
          /\ treeCalls' = treeCalls + 1
          /\ UNCHANGED <<lstart, reply, taps>>
  /\ UNCHANGED <<tool, args, dvars, pvars, hvars, now, wvars, ovars, lastTree, matches, shotCalls,
                 failure>>

\* getUiTree of the wait_for loop resolves
TapPollDone ==
  /\ tool = "tap_element"
  /\ tpc = "polling"
  /\ \E d \in CaptureTimes, tree \in DeviceTrees(args.platform) :
       LET found == TapMatches(tree, args) IN
       /\ now' = now + d
       /\ lastTree' = tree
       /\ IF Len(found) > TapTargetIndex(args)
          THEN /\ target' = ArrayGet(found, TapTargetIndex(args))
               /\ TapAfterLoop(target')
          ELSE /\ tpc' = "sleeping"
               /\ UNCHANGED <<target, reply, taps>>
  /\ UNCHANGED <<tool, args, dvars, pvars, hvars, wvars, ovars, lstart, matches,
                 treeCalls, shotCalls, failure>>

\* the timer of the wait_for loop fires
TapDelayDone ==
  /\ tool = "tap_element"
  /\ tpc = "sleeping"
  /\ now' = now + TimerMs(TapElementPollMs)
  /\ UNCHANGED <<lstart, target>>
  /\ TapLoopHead(now')
  /\ UNCHANGED <<tool, args, dvars, pvars, hvars, wvars, ovars, lastTree, matches, shotCalls,
                 failure>>

\* getUiTree of the single attempt resolves
TapSingleDone ==
  /\ tool = "tap_element"
  /\ tpc = "single"
  /\ \E d \in CaptureTimes, tree \in DeviceTrees(args.platform) :
       LET found == TapMatches(tree, args) IN
       /\ now' = now + d
       /\ lastTree' = tree
       /\ IF Len(found) = 0
          THEN /\ tpc' = "done"
               /\ reply' = TapErrorReply("not found")
               /\ UNCHANGED <<target, taps>>
          ELSE IF Len(found) <= TapTargetIndex(args)
          THEN /\ tpc' = "done"
               /\ reply' = TapErrorReply("index")
               /\ UNCHANGED <<target, taps>>
          ELSE /\ target' = ArrayGet(found, TapTargetIndex(args))
               /\ TapIssue(target')
  /\ UNCHANGED <<tool, args, dvars, pvars, hvars, wvars, ovars, lstart, matches,
                 treeCalls, shotCalls, failure>>

\* getUiTree rejects, in the loop or in the single attempt
TapCaptureFail ==
  /\ tool = "tap_element"
  /\ tpc \in {"polling", "single"}
  /\ \E d \in CaptureTimes : now' = now + d
  /\ tpc' = "done"
  /\ reply' = [kind |-> "threw"]
  /\ failure' = "tree"
  /\ UNCHANGED <<tool, args, dvars, pvars, hvars, wvars, ovars, lvars, treeCalls, shotCalls>>

\* the tap command resolves: performObservation is called
TapTapDone ==
  /\ tool = "tap_element"
  /\ tpc = "tapping"
  /\ \E d \in CaptureTimes : now' = now + d
  /\ ObsCall(TapObserveOptions(args), now')
  /\ tpc' = "observing"
  /\ UNCHANGED <<tool, args, dvars, pvars, reply, lvars, failure>>

\* the tap command rejects
TapTapFail ==
  /\ tool = "tap_element"
  /\ tpc = "tapping"
  /\ \E d \in CaptureTimes : now' = now + d
  /\ tpc' = "done"
  /\ reply' = [kind |-> "threw"]
  /\ failure' = "tap"
  /\ UNCHANGED <<tool, args, dvars, pvars, hvars, wvars, ovars, lvars, treeCalls, shotCalls>>

\* performObservation settles
TapObsReturn ==
  /\ tool = "tap_element"
  /\ tpc = "observing"
  /\ opc \in {"returned", "threw"}
  /\ tpc' = "done"
  /\ reply' = IF opc = "threw" THEN [kind |-> "threw"]
              ELSE [kind |-> "content", isError |-> FALSE,
                    observation |-> result]
  /\ UNCHANGED <<tool, args, dvars, pvars, hvars, now, wvars, ovars, lvars, treeCalls, shotCalls,
                 failure>>

(***************************************************************************)
(* platforms/android.ts : getFirstDeviceId and getUiTree                   *)
(***************************************************************************)
\* the id of the i-th device of an enumeration
DeviceName(i) == <<"d">> \o NatToString(i)

\* android.getFirstDeviceId after listDevices resolved: the id, or Undefined
\* where the function throws the no-device error
AndroidFirstDevice(devices) ==
  LET connected == SelectSeq(devices, LAMBDA d : d.status = "device")
  IN  IF Len(connected) = 0 THEN Undefined ELSE Some(connected[1].id)

\* the strategies of getUiTree in another order
MutStrategies ==
  << [via |-> "tty", delayMs |-> 0], [via |-> "tty", delayMs |-> SettleDelayMs],
     [via |-> "file", delayMs |-> 0], [via |-> "file", delayMs |-> SettleDelayMs] >>

\* the array of strategies: tty, file, wait+tty, wait+file
Strategies ==
  << [via |-> "tty", delayMs |-> 0], [via |-> "file", delayMs |-> 0],
     [via |-> "tty", delayMs |-> SettleDelayMs],
     [via |-> "file", delayMs |-> SettleDelayMs] >>

\* a node of a dump: the attributes parseUiXml reads; bounds is the tuple
\* <<x1, y1, x2, y2>> or Undefined where the attribute does not match
XmlNode(class, text, desc, clickable, bounds) ==
  [class |-> class, text |-> text, contentDesc |-> desc,
   clickable |-> clickable, bounds |-> bounds]

NodeSettings ==
  XmlNode(<<"T">>, <<"S">>, <<>>, TRUE, Some(<<0, 100, 540, 150>>))
NodeSearch ==
  XmlNode(<<"V">>, <<>>, <<"F">>, FALSE, Some(<<600, 100, 700, 200>>))
NodeNoBounds == XmlNode(<<"V">>, <<"x">>, <<>>, FALSE, Undefined)

\* what exec resolves with for a dump: text with or without a <hierarchy>
\* document, and the nodes of that document
DumpOutputs ==
  { [hierarchy |-> FALSE, nodes |-> <<>>],
    [hierarchy |-> TRUE, nodes |-> <<>>],
    [hierarchy |-> TRUE, nodes |-> <<NodeNoBounds>>],
    [hierarchy |-> TRUE, nodes |-> <<NodeSettings, NodeNoBounds, NodeSearch>>] }

\* extractXml: the document, or null
extractXml(output) ==
  IF output.hierarchy THEN Some(output.nodes) ELSE Undefined

\* the element parseUiXml pushes for a node whose bounds matched
ParseNode(n) ==
  UiElement(n.class, IF n.text # <<>> THEN n.text ELSE n.contentDesc,
            Bounds(n.bounds[1][1], n.bounds[1][2],
                   n.bounds[1][3] - n.bounds[1][1],
                   n.bounds[1][4] - n.bounds[1][2]),
            n.clickable)

\* parseUiXml: nodes whose bounds do not match are skipped
parseUiXml(nodes) ==
  LET matched == SelectSeq(nodes, LAMBDA n : n.bounds # Undefined)
  IN  [i \in 1..Len(matched) |-> ParseNode(matched[i])]

\* the test of lines 583-585 without the length test
MutUsableDump(xml) == xml # Undefined

\* lines 583-585: if (xml) ... if (elements.length > 0)
UsableDump(xml) == xml # Undefined /\ Len(parseUiXml(xml[1])) > 0

Command(cmd) == [cmd |-> cmd, arg |-> ""]

\* the first command of a dump over the given channel
DumpCommand(via) ==
  IF via = "tty" THEN Command("dump /dev/tty") ELSE Command("dump file")

\* the loop of lines 580-590 reaches strategy k, or the throw of line 592
\* after the last one.  Determines tpc, reply, attempts and commands from
\* the attempts made so far.
GutTryFrom(k, made, cmds) ==
  IF k > Len(Strategies)
  THEN /\ tpc' = "done"
       /\ reply' = [kind |-> "threw", error |-> "TreeParseError"]
       /\ attempts' = made
       /\ commands' = cmds
  ELSE /\ attempts' = Append(made, [strategy |-> Strategies[k],
                                    outcome |-> "pending", elements |-> <<>>])
       /\ UNCHANGED reply
       /\ IF Strategies[k].delayMs > 0
          THEN /\ tpc' = "settling"
               /\ commands' = cmds
          ELSE /\ tpc' = Strategies[k].via
               /\ commands' = Append(cmds, DumpCommand(Strategies[k].via))

\* the attempts with the outcome of the running one filled in
Settle(outcome, elements) ==
  [attempts EXCEPT ![Len(attempts)] =
     [@ EXCEPT !.outcome = outcome, !.elements = elements]]

\* the running strategy threw: the catch of line 587
GutStrategyThrew(cmds) ==
  GutTryFrom(Len(attempts) + 1, Settle("threw", <<>>), cmds)

\* the running strategy resolved with the value of extractXml
GutStrategyResolved(xml, cmds) ==
  IF UsableDump(xml)
  THEN /\ tpc' = "done"
       /\ reply' = [kind |-> "returned", value |-> parseUiXml(xml[1])]
       /\ attempts' = Settle("elements", parseUiXml(xml[1]))
       /\ commands' = cmds
  ELSE GutTryFrom(Len(attempts) + 1,
                  Settle(IF xml = Undefined THEN "no xml" ELSE "no elements",
                         <<>>),
                  cmds)

\* who wrote or removed the dump file: a strategy of this call, or the
\* file strategy of the second call
NoOrigin == [call |-> "none", strategy |-> 0]
ThisCall(k) == [call |-> "this", strategy |-> k]
PeerCall == [call |-> "peer", strategy |-> 2]

\* the fixed remote path of line 612, present (written by) or absent
\* (removed by)
File(writer) == [exists |-> TRUE, by |-> writer]
NoFile(remover) == [exists |-> FALSE, by |-> remover]

\* what cat resolves with: any dump where the file exists, text without a
\* document where it does not
CatOutputs(file) ==
  IF file.exists THEN DumpOutputs
  ELSE { o \in DumpOutputs : ~o.hierarchy }

GutOthers ==
  UNCHANGED <<tool, args, hvars, wvars, ovars, lvars, treeCalls, shotCalls,
              failure>>

\* the call: resolveDevice, then the first strategy
GutCall ==
  /\ tool = "android.getUiTree"
  /\ tpc = "start"
  /\ IF args.deviceId = Undefined
     THEN /\ tpc' = "listing"
          /\ commands' = Append(commands, Command("devices"))
          /\ UNCHANGED <<reply, attempts>>
     ELSE GutTryFrom(1, attempts, commands)
  /\ UNCHANGED now
  /\ UNCHANGED dvars
  /\ GutOthers

\* listDevices resolves: getFirstDeviceId returns or throws
GutListDone ==
  /\ tool = "android.getUiTree"
  /\ tpc = "listing"
  /\ \E d \in CaptureTimes : now' = now + d
  /\ IF AndroidFirstDevice(args.devices) = Undefined
     THEN /\ tpc' = "done"
          /\ reply' = [kind |-> "threw", error |-> "NoDeviceError"]
          /\ UNCHANGED <<attempts, commands>>
     ELSE GutTryFrom(1, attempts, commands)
  /\ UNCHANGED dvars
  /\ GutOthers

\* exec of "adb devices" rejects
GutListFail ==
  /\ tool = "android.getUiTree"
  /\ tpc = "listing"
  /\ \E d \in CaptureTimes : now' = now + d
  /\ tpc' = "done"
  /\ reply' = [kind |-> "threw", error |-> "ExecutionError"]
  /\ UNCHANGED <<attempts, commands>>
  /\ UNCHANGED dvars
  /\ GutOthers

\* delay(800) of strategies 3 and 4 resolves: the dump starts
GutSettleDone ==
  /\ tool = "android.getUiTree"
  /\ tpc = "settling"
  /\ now' = now + TimerMs(attempts[Len(attempts)].strategy.delayMs)
  /\ tpc' = attempts[Len(attempts)].strategy.via
  /\ commands' =
       Append(commands, DumpCommand(attempts[Len(attempts)].strategy.via))
  /\ UNCHANGED <<reply, attempts>>
  /\ UNCHANGED dvars
  /\ GutOthers

\* dumpUiViaTty: exec resolves
GutTtyDone ==
  /\ tool = "android.getUiTree"
  /\ tpc = "tty"
  /\ \E d \in CaptureTimes, output \in DumpOutputs :
       /\ now' = now + d
       /\ GutStrategyResolved(extractXml(output), commands)
  /\ UNCHANGED dvars
  /\ GutOthers

\* dumpUiViaTty: exec rejects
GutTtyFail ==
  /\ tool = "android.getUiTree"
  /\ tpc = "tty"
  /\ \E d \in CaptureTimes : now' = now + d
  /\ GutStrategyThrew(commands)
  /\ UNCHANGED dvars
  /\ GutOthers

\* dumpUiViaFile: the dump to the file resolves, cat starts
GutFileDumpDone ==
  /\ tool = "android.getUiTree"
  /\ tpc = "file"
  /\ \E d \in CaptureTimes : now' = now + d
  /\ tpc' = "cat"
  /\ commands' = Append(commands, Command("cat file"))
  /\ dumpFile' = File(ThisCall(Len(attempts)))
  /\ UNCHANGED <<reply, attempts, rmPending, peer>>
  /\ GutOthers

\* dumpUiViaFile: the dump to the file rejects
GutFileDumpFail ==
  /\ tool = "android.getUiTree"
  /\ tpc = "file"
  /\ \E d \in CaptureTimes : now' = now + d
  /\ GutStrategyThrew(commands)
  /\ UNCHANGED dvars
  /\ GutOthers

\* dumpUiViaFile: cat resolves; rm is started and not awaited
GutFileCatDone ==
  /\ tool = "android.getUiTree"
  /\ tpc = "cat"
  /\ \E d \in CaptureTimes, output \in CatOutputs(dumpFile) :
       /\ now' = now + d
       /\ GutStrategyResolved(extractXml(output),
                              Append(commands, Command("rm file")))
  /\ rmPending' = rmPending \cup {ThisCall(Len(attempts))}
  /\ UNCHANGED <<dumpFile, peer>>
  /\ GutOthers

\* dumpUiViaFile: cat rejects
GutFileCatFail ==
  /\ tool = "android.getUiTree"
  /\ tpc = "cat"
  /\ \E d \in CaptureTimes : now' = now + d
  /\ GutStrategyThrew(commands)
  /\ UNCHANGED dvars
  /\ GutOthers

\* an rm of line 620 runs on the device, at any time after it was
\* started: it removes the file, or rejects into the empty catch
GutRmDone ==
  /\ tool = "android.getUiTree"
  /\ \E r \in rmPending, ok \in BOOLEAN :
       /\ rmPending' = rmPending \ {r}
       /\ dumpFile' = IF ok /\ dumpFile.exists THEN NoFile(r) ELSE dumpFile
  /\ UNCHANGED <<now, tpc, reply, pvars, peer>>
  /\ GutOthers

\* dumpUiViaFile of the second call: the dump to the file resolves
PeerFileDumpDone ==
  /\ tool = "android.getUiTree"
  /\ peer = "file"
  /\ peer' = "cat"
  /\ dumpFile' = File(PeerCall)
  /\ UNCHANGED <<now, tpc, reply, pvars, rmPending>>
  /\ GutOthers

\* dumpUiViaFile of the second call: cat resolves and its rm is started,
\* or cat rejects
PeerFileCatDone ==
  /\ tool = "android.getUiTree"
  /\ peer = "cat"
  /\ \/ /\ peer' = IF dumpFile.exists THEN "read" ELSE "no xml"
        /\ rmPending' = rmPending \cup {PeerCall}
     \/ /\ peer' = "threw"
        /\ UNCHANGED rmPending
  /\ UNCHANGED <<now, tpc, reply, pvars, dumpFile>>
  /\ GutOthers

(***************************************************************************)
(* platforms/ios.ts and platforms/android.ts : getFirstDeviceId            *)
(***************************************************************************)
\* ios.getFirstDeviceId after listDevices resolved: the id, or Undefined
\* where the function throws the no-device error
IosFirstDevice(devices) ==
  LET booted == SelectSeq(devices, LAMBDA d : d.status = "booted")
      connected == SelectSeq(devices, LAMBDA d : d.status = "booted"
                                                 \/ d.status = "connected")
  IN  IF Len(booted) > 0 THEN Some(booted[1].id)
      ELSE IF Len(connected) = 0 THEN Undefined
      ELSE Some(connected[1].id)

\* android.getFirstDeviceId accepting every device that is not offline
MutFirstDevice(platform, devices) ==
  IF platform = "android"
  THEN LET connected == SelectSeq(devices, LAMBDA d : d.status # "offline")
       IN  IF Len(connected) = 0 THEN Undefined ELSE Some(connected[1].id)
  ELSE IosFirstDevice(devices)

\* getFirstDeviceId of the platform
FirstDevice(platform, devices) ==
  IF platform = "android" THEN AndroidFirstDevice(devices)
  ELSE IosFirstDevice(devices)

Thrown(error) == [kind |-> "threw", error |-> error]

PlatformOthers ==
  UNCHANGED <<tool, args, dvars, hvars, wvars, ovars, lvars, treeCalls, shotCalls,
              failure, attempts>>

\* the call: listDevices is started
GfdCall ==
  /\ tool = "getFirstDeviceId"
  /\ tpc = "start"
  /\ tpc' = "listing"
  /\ commands' = Append(commands, Command("devices"))
  /\ UNCHANGED <<now, reply>>
  /\ PlatformOthers

\* listDevices resolves
GfdListDone ==
  /\ tool = "getFirstDeviceId"
  /\ tpc = "listing"
  /\ \E d \in CaptureTimes : now' = now + d
  /\ tpc' = "done"
  /\ reply' = IF FirstDevice(args.platform, args.devices) = Undefined
              THEN Thrown("NoDeviceError")
              ELSE [kind |-> "returned",
                    value |-> FirstDevice(args.platform, args.devices)[1]]
  /\ UNCHANGED commands
  /\ PlatformOthers

\* exec of "adb devices" rejects; ios.listDevices catches every failure
GfdListFail ==
  /\ tool = "getFirstDeviceId"
  /\ tpc = "listing"
  /\ args.platform = "android"
  /\ \E d \in CaptureTimes : now' = now + d
  /\ tpc' = "done"
  /\ reply' = Thrown("ExecutionError")
  /\ UNCHANGED commands
  /\ PlatformOthers

(***************************************************************************)
(* platforms/ios.ts and platforms/android.ts : pressKey                    *)
(***************************************************************************)
\* names every object literal inherits from Object.prototype
InheritedNames == {"constructor"}

\* KEYCODE_MAP[key]: the code, an inherited member, or undefined
AndroidKeycode(key) ==
  CASE key = "home" -> Some("3")
    [] key = "back" -> Some("4")
    [] key = "enter" -> Some("66")
    [] key = "power" -> Some("26")
    [] key \in InheritedNames -> Some("function Object() { [native code] }")
    [] OTHER -> Undefined

\* IOS_KEY_MAP[key]: the entry, an inherited member (which has neither an
\* idb nor a simctl property), or undefined
IosKeyMapping(key) ==
  CASE key = "home" -> Some([idb |-> Some("1"), simctl |-> Undefined])
    [] key = "back" -> Some([idb |-> Some("back"), simctl |-> Undefined])
    [] key = "enter" -> Some([idb |-> Some("13"), simctl |-> Some("return")])
    [] key = "power" -> Some([idb |-> Some("power"), simctl |-> Undefined])
    [] key \in InheritedNames -> Some([idb |-> Undefined, simctl |-> Undefined])
    [] OTHER -> Undefined

\* ${value} in a command line
Interpolate(v) == IF v = Undefined THEN "undefined" ELSE v[1]

KeyCommand(cmd, arg) == [cmd |-> cmd, arg |-> arg]

KeyPressCommands == {"keyevent", "idb button", "idb key", "simctl keycode"}

\* pressKey once the device id is known: the lookup, the validation and the
\* next command
PkWithDevice ==
  IF args.platform = "android"
  THEN IF AndroidKeycode(args.key) = Undefined
       THEN /\ tpc' = "done"
            /\ reply' = Thrown("UnknownKeyError")
            /\ UNCHANGED commands
       ELSE /\ tpc' = "pressing"
            /\ commands' =
                 Append(commands,
                        KeyCommand("keyevent", AndroidKeycode(args.key)[1]))
            /\ UNCHANGED reply
  ELSE IF IosKeyMapping(args.key) = Undefined
       THEN /\ tpc' = "done"
            /\ reply' = Thrown("UnknownKeyError")
            /\ UNCHANGED commands
       ELSE /\ tpc' = "probing"
            /\ commands' = Append(commands, Command("which idb"))
            /\ UNCHANGED reply

PkCall ==
  /\ tool = "pressKey"
  /\ tpc = "start"
  /\ IF args.deviceId = Undefined
     THEN /\ tpc' = "listing"
          /\ commands' = Append(commands, Command("devices"))
          /\ UNCHANGED reply
     ELSE PkWithDevice
  /\ UNCHANGED now
  /\ PlatformOthers

\* listDevices resolves: getFirstDeviceId returns or throws
PkListDone ==
  /\ tool = "pressKey"
  /\ tpc = "listing"
  /\ \E d \in CaptureTimes : now' = now + d
  /\ IF FirstDevice(args.platform, args.devices) = Undefined
     THEN /\ tpc' = "done"
          /\ reply' = Thrown("NoDeviceError")
          /\ UNCHANGED commands
     ELSE PkWithDevice
  /\ PlatformOthers

PkListFail ==
  /\ tool = "pressKey"
  /\ tpc = "listing"
  /\ args.platform = "android"
  /\ \E d \in CaptureTimes : now' = now + d
  /\ tpc' = "done"
  /\ reply' = Thrown("ExecutionError")
  /\ UNCHANGED commands
  /\ PlatformOthers

\* ios: hasIdb resolves, lines 253-271
PkProbeDone ==
  /\ tool = "pressKey"
  /\ tpc = "probing"
  /\ \E d \in CaptureTimes : now' = now + d
  /\ LET mapping == IosKeyMapping(args.key)[1] IN
     IF args.key = "home"
     THEN /\ tpc' = "pressing"
          /\ commands' =
               Append(commands,
                      IF args.idb THEN KeyCommand("idb button", "HOME")
                      ELSE KeyCommand("simctl keycode", "0x124"))
          /\ UNCHANGED reply
     ELSE IF args.idb
     THEN /\ tpc' = "pressing"
          /\ commands' =
               Append(commands, KeyCommand("idb key", Interpolate(mapping.idb)))
          /\ UNCHANGED reply
     ELSE IF mapping.simctl # Undefined
     THEN /\ tpc' = "pressing"
          /\ commands' =
               Append(commands, KeyCommand("simctl keycode", mapping.simctl[1]))
          /\ UNCHANGED reply
     ELSE /\ tpc' = "done"
          /\ reply' = Thrown("UnsupportedKeyError")
          /\ UNCHANGED commands
  /\ PlatformOthers

\* the key-press command resolves
PkPressDone ==
  /\ tool = "pressKey"
  /\ tpc = "pressing"
  /\ \E d \in CaptureTimes : now' = now + d
  /\ tpc' = "done"
  /\ reply' = [kind |-> "returned", value |-> "undefined"]
  /\ UNCHANGED commands
  /\ PlatformOthers

\* the key-press command rejects
PkPressFail ==
  /\ tool = "pressKey"
  /\ tpc = "pressing"
  /\ \E d \in CaptureTimes : now' = now + d
  /\ tpc' = "done"
  /\ reply' = Thrown("ExecutionError")
  /\ UNCHANGED commands
  /\ PlatformOthers

(***************************************************************************)
(* platforms/ios.ts : getUiTree                                            *)
(***************************************************************************)
\* the lines a describe-all command prints: JSON entries and other text
IosEntry(el) == [json |-> TRUE, el |-> el]
IosNoise == [json |-> FALSE]

IosOutputs ==
  { << >>, << IosNoise >>, << IosEntry(ElOk), IosNoise, IosEntry(ElHello) >> }

\* parseIdbDescribeAll: the lines that are not JSON are skipped
parseIdbDescribeAll(lines) ==
  LET entries == SelectSeq(lines, LAMBDA l : l.json)
  IN  [i \in 1..Len(entries) |-> entries[i].el]

\* the describe-all command chosen by hasIdb
IosTreeCommand(idb) ==
  IF idb THEN "idb describe-all" ELSE "simctl describe-all"

\* every rejection passed on as it is
MutIosTreeFailure(cmd) == "ExecutionError"

\* the error of getUiTree when its describe-all command rejects: the catch
\* around the fallback replaces the error, the idb command has no catch
IosTreeFailure(cmd) ==
  IF cmd = "simctl describe-all" THEN "DependencyMissingError"
  ELSE "ExecutionError"

\* getUiTree once the device id is known: hasIdb is called
IgtWithDevice ==
  /\ tpc' = "probing"
  /\ commands' = Append(commands, Command("which idb"))
  /\ UNCHANGED reply

IgtCall ==
  /\ tool = "ios.getUiTree"
  /\ tpc = "start"
  /\ IF args.deviceId = Undefined
     THEN /\ tpc' = "listing"
          /\ commands' = Append(commands, Command("devices"))
          /\ UNCHANGED reply
     ELSE IgtWithDevice
  /\ UNCHANGED now
  /\ PlatformOthers

\* listDevices resolves: getFirstDeviceId returns or throws
IgtListDone ==
  /\ tool = "ios.getUiTree"
  /\ tpc = "listing"
  /\ \E d \in CaptureTimes : now' = now + d
  /\ IF IosFirstDevice(args.devices) = Undefined
     THEN /\ tpc' = "done"
          /\ reply' = Thrown("NoDeviceError")
          /\ UNCHANGED commands
     ELSE IgtWithDevice
  /\ PlatformOthers

\* hasIdb resolves: the describe-all command is started
IgtProbeDone ==
  /\ tool = "ios.getUiTree"
  /\ tpc = "probing"
  /\ \E d \in CaptureTimes : now' = now + d
  /\ tpc' = "describing"
  /\ commands' = Append(commands, Command(IosTreeCommand(args.idb)))
  /\ UNCHANGED reply
  /\ PlatformOthers

\* the describe-all command resolves
IgtDescribeDone ==
  /\ tool = "ios.getUiTree"
  /\ tpc = "describing"
  /\ \E d \in CaptureTimes, output \in IosOutputs :
       /\ now' = now + d
       /\ reply' = [kind |-> "returned", value |-> parseIdbDescribeAll(output)]
  /\ tpc' = "done"
  /\ UNCHANGED commands
  /\ PlatformOthers

\* the describe-all command rejects
IgtDescribeFail ==
  /\ tool = "ios.getUiTree"
  /\ tpc = "describing"
  /\ \E d \in CaptureTimes : now' = now + d
  /\ tpc' = "done"
  /\ reply' = Thrown(IosTreeFailure(commands[Len(commands)].cmd))
  /\ UNCHANGED commands
  /\ PlatformOthers

(***************************************************************************)
(* The action tools: tools/tap.ts, double-tap.ts, long-press.ts, swipe.ts, *)
(* type-text.ts, press-key.ts, launch-app.ts, open-url.ts.  Each handler   *)
(* awaits the platform action and then calls performObservation.           *)
(***************************************************************************)
\* the action tools whose handler is in the sources
SourceActionTools ==
  {"double_tap", "long_press", "swipe", "type_text", "press_key", "launch_app"}

\* the two action tools described by the README only
ReadmeActionTools == {"tap", "open_url"}

ActionTools == SourceActionTools \cup ReadmeActionTools

\* the options every action handler passes to performObservation
ActObserveOptions(a) ==
  [mode |-> Coalesce(a.observe, "none"), platform |-> a.platform,
   delayMs |-> Some(Coalesce(a.observe_delay_ms, DefaultObserveDelayMs)),
   stabilize |-> a.observe_stabilize,
   stabilizePollMs |-> Undefined, stabilizeTimeoutMs |-> Undefined,
   filterUi |-> Undefined]

\* swipe without a direction and without the four coordinates
ActErrorReply == [kind |-> "content", isError |-> TRUE, error |-> "arguments"]

\* the platform action is called
ActIssue ==
  /\ tpc' = "acting"
  /\ commands' = Append(commands, Command(tool))

\* the observation started whether the action resolved or rejected
MutActSettled(ok) ==
  /\ ObsCall(ActObserveOptions(args), now')
  /\ tpc' = "observing"
  /\ UNCHANGED reply

\* the await of the platform action settles: performObservation is called
\* when it resolved, the exception leaves the handler when it rejected
ActSettled(ok) ==
  IF ok
  THEN /\ ObsCall(ActObserveOptions(args), now')
       /\ tpc' = "observing"
       /\ UNCHANGED reply
  ELSE /\ tpc' = "done"
       /\ reply' = [kind |-> "threw"]
       /\ UNCHANGED <<wvars, ovars, hvars, treeCalls, shotCalls>>

\* the handler up to its first await; swipe.ts:80-130 first works out the
\* coordinates, from the screen size when a direction is given
ActCall ==
  /\ tool \in ActionTools
  /\ tpc = "start"
  /\ IF tool = "swipe" /\ args.direction # Undefined
     THEN /\ tpc' = "info"
          /\ UNCHANGED <<commands, reply>>
     ELSE IF tool = "swipe" /\ ~args.coords
     THEN /\ tpc' = "done"
          /\ reply' = ActErrorReply
          /\ UNCHANGED commands
     ELSE /\ ActIssue
          /\ UNCHANGED reply
  /\ UNCHANGED <<tool, args, dvars, now, wvars, ovars, lvars, treeCalls, shotCalls,
                 failure, attempts, hvars>>

\* swipe: getScreenInfo resolves
ActInfoDone ==
  /\ tool = "swipe"
  /\ tpc = "info"
  /\ \E d \in CaptureTimes : now' = now + d
  /\ ActIssue
  /\ UNCHANGED <<tool, args, dvars, wvars, ovars, reply, lvars, treeCalls, shotCalls,
                 failure, attempts, hvars>>

\* swipe: getScreenInfo rejects
ActInfoFail ==
  /\ tool = "swipe"
  /\ tpc = "info"
  /\ \E d \in CaptureTimes : now' = now + d
  /\ tpc' = "done"
  /\ reply' = [kind |-> "threw"]
  /\ failure' = "info"
  /\ UNCHANGED <<tool, args, dvars, wvars, ovars, lvars, treeCalls, shotCalls,
                 pvars, hvars>>

\* the platform action resolves
ActDone ==
  /\ tool \in ActionTools
  /\ tpc = "acting"
  /\ \E d \in CaptureTimes : now' = now + d
  /\ ActSettled(TRUE)
  /\ UNCHANGED <<tool, args, dvars, lvars, failure, pvars>>

\* the platform action rejects
ActFail ==
  /\ tool \in ActionTools
  /\ tpc = "acting"
  /\ \E d \in CaptureTimes : now' = now + d
  /\ failure' = "action"
  /\ ActSettled(FALSE)
  /\ UNCHANGED <<tool, args, dvars, lvars, pvars>>

\* performObservation settles
ActObsReturn ==
  /\ tool \in ActionTools
  /\ tpc = "observing"
  /\ opc \in {"returned", "threw"}
  /\ tpc' = "done"
  /\ reply' = IF opc = "threw" THEN [kind |-> "threw"]
              ELSE [kind |-> "content", isError |-> FALSE,
                    observation |-> result]
  /\ UNCHANGED <<tool, args, dvars, now, wvars, ovars, lvars, treeCalls, shotCalls,
                 failure, pvars, hvars>>

(***************************************************************************)
(* filterUiElements and hashUiTree called on their own.                    *)
(***************************************************************************)
\* the sequences over S of length at most n
SeqsUpTo(S, n) == UNION { [1..k -> S] : k \in 0..n }

\* filterUiElements(elements, includeAll = false)
FilterApply ==
  /\ tool = "filterUiElements"
  /\ tpc = "start"
  /\ tpc' = "done"
  /\ reply' = [kind |-> "returned",
               value |-> filterUiElements(args.elements,
                                          Coalesce(args.includeAll, FALSE))]
  /\ UNCHANGED <<tool, args, dvars, pvars, hvars, now, wvars, ovars, lvars, treeCalls,
                 shotCalls, failure>>

\* hashUiTree of two element lists
HashApply ==
  /\ tool = "hashUiTree"
  /\ tpc = "start"
  /\ tpc' = "done"
  /\ reply' = [kind |-> "returned",
               value |-> <<hashUiTree(args.a), hashUiTree(args.b)>>]
  /\ UNCHANGED <<tool, args, dvars, pvars, hvars, now, wvars, ovars, lvars, treeCalls,
                 shotCalls, failure>>

(***************************************************************************)
(* Arguments and the initial state.                                        *)
(***************************************************************************)
\* (pollIntervalMs, timeoutMs) argument pairs
PollTimeoutArgs ==
  { <<Undefined, Undefined>>, <<Undefined, Some(0)>>, <<Some(0), Some(5000)>>,
    <<Some(2000), Some(1500)>> }
DelayArgs == {Undefined, Some(0), Some(0 - 5), Some(700)}
FlagArgs == {Undefined, Some(FALSE), Some(TRUE)}

\* pairs of optional arguments of which at most one is given
AtMostOneGiven(A, B) == {ab \in A \X B : ab[1] = Undefined \/ ab[2] = Undefined}

NoPair == <<Undefined, Undefined>>
NoTriple == <<Undefined, Undefined, Undefined>>

\* pairs of argument groups of which at most one is given
AtMostOneGroup(A, noA, B, noB) ==
  {ab \in A \X B : ab[1] = noA \/ ab[2] = noB}

\* ((stabilizePollMs, stabilizeTimeoutMs), (delayMs, filterUi))
ObserveOptionArgs ==
  AtMostOneGroup(PollTimeoutArgs, NoPair,
                 AtMostOneGiven(DelayArgs, FlagArgs), NoPair)

ObserveArgs ==
  { [mode |-> m, platform |-> p, delayMs |-> q[2][1], stabilize |-> s,
     stabilizePollMs |-> q[1][1], stabilizeTimeoutMs |-> q[1][2],
     filterUi |-> q[2][2]] :
    m \in Modes, p \in Platforms, s \in FlagArgs, q \in ObserveOptionArgs }

StableToolArgs ==
  { [platform |-> p, poll_interval_ms |-> pt[1], timeout_ms |-> pt[2],
     include_screenshot |-> sf[1], filter_ui |-> sf[2]] :
    p \in Platforms, pt \in PollTimeoutArgs,
    sf \in AtMostOneGiven(FlagArgs, FlagArgs) }

\* (text_contains, text_exact) argument pairs
TextArgs ==
  { NoPair, <<Some(<<"O">>), Undefined>>, <<Undefined, Some(<<"O", "k">>)>>,
    <<Some(<<"l">>), Some(<<"O", "k">>)>> }
\* (type_contains, clickable) argument pairs
TypeArgs == { NoPair, <<Some(<<"b">>), Undefined>>, <<Undefined, Some(FALSE)>> }
ObserveModeArgs == {Undefined, Some("both")}

WfeArgs ==
  { [platform |-> p, text_contains |-> c[1][1], text_exact |-> c[1][2],
     type_contains |-> c[2][1], clickable |-> c[2][2],
     poll_interval_ms |-> pt[1], timeout_ms |-> pt[2], observe |-> o] :
    p \in Platforms, c \in AtMostOneGroup(TextArgs, NoPair, TypeArgs, NoPair),
    pt \in PollTimeoutArgs, o \in ObserveModeArgs }

\* (text_contains, text_exact) argument pairs of tap_element
TapTextArgs ==
  { <<Undefined, Undefined>>, <<Some(<<>>), Undefined>>,
    <<Some(<<"O">>), Undefined>>, <<Undefined, Some(<<"O", "k">>)>> }
IndexArgs == {Undefined, Some(1), Some(0 - 1)}
TapTimeoutArgs == {Undefined, Some(0), Some(5000)}
\* (observe, observe_delay_ms, observe_stabilize) argument triples
TapObserveArgs ==
  { NoTriple, <<Some("ui_tree"), Some(0), Undefined>>,
    <<Some("screenshot"), Undefined, Some(TRUE)>> }

\* (wait_for, timeout_ms) argument pairs
TapWaitArgs == {NoPair} \cup ({Some(TRUE)} \X TapTimeoutArgs)
\* (index, (wait_for, timeout_ms)) argument pairs
TapSearchArgs == IndexArgs \X TapWaitArgs

TapArgs ==
  { [platform |-> p, text_contains |-> tx[1], text_exact |-> tx[2],
     index |-> q[1][1], wait_for |-> q[1][2][1], timeout_ms |-> q[1][2][2],
     observe |-> q[2][1], observe_delay_ms |-> q[2][2],
     observe_stabilize |-> q[2][3]] :
    p \in Platforms, tx \in TapTextArgs,
    q \in AtMostOneGroup(TapSearchArgs, <<Undefined, NoPair>>,
                         TapObserveArgs, NoTriple) }

\* (observe, observe_delay_ms, observe_stabilize) of the action tools:
\* no observation, both captures after the default delay, the tree after
\* stabilization
ActObserveArgs ==
  { NoTriple, <<Some("both"), Undefined, Undefined>>,
    <<Some("ui_tree"), Some(0), Some(TRUE)>> }

\* swipe: (direction, all four coordinates given)
SwipeArgs == { <<Some("up"), FALSE>>, <<Undefined, TRUE>>, <<Undefined, FALSE>> }

ActArgs(name) ==
  { [platform |-> p, observe |-> o[1], observe_delay_ms |-> o[2],
     observe_stabilize |-> o[3], direction |-> sw[1], coords |-> sw[2]] :
    p \in Platforms, o \in ActObserveArgs,
    sw \in IF name = "swipe" THEN SwipeArgs ELSE { <<Undefined, TRUE>> } }

\* elements with empty, blank and visible text, clickable or not
FilterElements ==
  { UiElement(<<"V">>, text, Bounds(0, 100, 10, 10), c) :
      text \in { <<>>, <<" ">>, <<"H", "i">> }, c \in BOOLEAN }

FilterArgs ==
  { [elements |-> e, includeAll |-> f] :
      e \in SeqsUpTo(FilterElements, MaxFilterLen), f \in FlagArgs }

\* elements on both sides of each threshold of the status band, and a
\* second text inside the band
HashElements ==
  { UiElement(<<"V">>, <<"a">>, Bounds(0, y, 10, h), FALSE) :
      y \in {StatusBandPx - 1, StatusBandPx},
      h \in {StatusBandPx - 1, StatusBandPx} }
  \cup { UiElement(<<"V">>, <<"b">>,
                   Bounds(0, StatusBandPx - 1, 10, StatusBandPx - 1), FALSE) }

\* an element just below the status band, one pixel wide and high
ElSmall(type, text) == UiElement(type, text, Bounds(0, StatusBandPx, 1, 1), FALSE)

\* trees whose type or text holds a character that the signature also
\* uses between fields ("|") or between elements (line feed)
DelimiterTrees ==
  { <<ElSmall(<<"a", "|", "b">>, <<"c">>)>>,
    <<ElSmall(<<"a">>, <<"b", "|", "c">>)>>,
    <<ElSmall(<<"V">>, <<"x">>), ElSmall(<<"V">>, <<"y">>)>>,
    <<ElSmall(<<"V">>,
              <<"x", "|", "0", ",", "6", "0", ",", "1", ",", "1", "|",
                "f", "a", "l", "s", "e", "\n", "V", "|", "y">>)>> }

HashArgs ==
  { [a |-> a, b |-> b] : a, b \in SeqsUpTo(HashElements, MaxHashLen) }
  \cup { [a |-> a, b |-> b] : a, b \in DelimiterTrees }

\* what "adb devices" lists: devices ready, not authorized and offline
AndroidStatuses == {"device", "unauthorized", "offline"}

AndroidDeviceLists ==
  { [i \in 1..Len(st) |-> [id |-> DeviceName(i), status |-> st[i]]] :
      st \in SeqsUpTo(AndroidStatuses, MaxDevices) }

DeviceIdArgs == {Undefined, Some(<<"d", "9">>)}

GutArgs ==
  { [deviceId |-> id, devices |-> ds, peer |-> p] :
      id \in DeviceIdArgs,
      ds \in { l \in AndroidDeviceLists : Len(l) <= 1 },
      p \in BOOLEAN }

\* what ios.listDevices returns: the simulators of simctl, with their
\* state in lower case, followed by the physical devices of idb, which are
\* all "connected"
IosStatusLists ==
  { st \in SeqsUpTo({"booted", "shutdown", "connected"}, MaxDevices) :
      \A i, j \in 1..Len(st) :
        i < j /\ st[i] = "connected" => st[j] = "connected" }

IosDeviceLists ==
  { [i \in 1..Len(st) |-> [id |-> DeviceName(i), status |-> st[i]]] :
      st \in IosStatusLists }

DeviceLists(platform) ==
  IF platform = "android" THEN AndroidDeviceLists ELSE IosDeviceLists

GfdArgs ==
  UNION { { [platform |-> p, devices |-> ds] : ds \in DeviceLists(p) } :
          p \in Platforms }

IgtArgs ==
  { [deviceId |-> id, devices |-> ds, idb |-> b] :
      id \in DeviceIdArgs, b \in BOOLEAN,
      ds \in { l \in IosDeviceLists : Len(l) <= 1 } }

\* names in the key tables, a name in neither, and an inherited name
KeyArgs == {"home", "enter", "power", "menu", "constructor"}

PkArgs ==
  UNION { { [platform |-> p, key |-> k, deviceId |-> id, devices |-> ds,
             idb |-> b] :
            k \in KeyArgs, id \in DeviceIdArgs, b \in BOOLEAN,
            ds \in { l \in DeviceLists(p) : Len(l) <= 1 } } :
          p \in Platforms }

Init ==
  /\ \/ tool = "observe" /\ args \in ObserveArgs
     \/ tool = "getFirstDeviceId" /\ args \in GfdArgs
     \/ tool = "pressKey" /\ args \in PkArgs
     \/ tool = "android.getUiTree" /\ args \in GutArgs
     \/ tool = "filterUiElements" /\ args \in FilterArgs
     \/ tool = "hashUiTree" /\ args \in HashArgs
     \/ tool = "wait_for_stable" /\ args \in StableToolArgs
     \/ tool = "wait_for_element" /\ args \in WfeArgs
     \/ tool = "tap_element" /\ args \in TapArgs
     \/ tool \in ActionTools /\ args \in ActArgs(tool)
     \/ tool = "ios.getUiTree" /\ args \in IgtArgs
  /\ now = 0
  /\ wpc = "idle"
  /\ pollIntervalMs = 0
  /\ timeoutMs = 0
  /\ start = 0
  /\ previousHash = <<>>
  /\ previousTree = <<>>
  /\ wret = Undefined
  /\ wvia = "none"
  /\ nCaptures = 0
  /\ lastCaps = <<>>
  /\ opts = Undefined
  /\ opc = "idle"
  /\ waited = "none"
  /\ treeSt = "skipped"
  /\ shotSt = "skipped"
  /\ treeVal = Undefined
  /\ result = Undefined
  /\ tpc = "start"
  /\ reply = [kind |-> "none"]
  /\ lstart = 0
  /\ lastTree = <<>>
  /\ matches = <<>>
  /\ target = Undefined
  /\ taps = <<>>
  /\ treeCalls = 0
  /\ shotCalls = 0
  /\ failure = "none"
  /\ attempts = <<>>
  /\ commands = <<>>
  /\ settled = Undefined
  /\ filterArgs = <<>>
  /\ dumpFile = NoFile(NoOrigin)
  /\ rmPending = {}
  /\ peer = IF tool = "android.getUiTree" /\ args.peer THEN "file" ELSE "none"

Next ==
  \/ WaitCaptureDone
  \/ WaitCaptureFail
  \/ WaitDelayDone
  \/ ObsStableReturned
  \/ ObsStableThrew
  \/ ObsDelayDone
  \/ ObsTreeDone
  \/ ObsTreeFail
  \/ ObsShotDone
  \/ ObsShotFail
  \/ ObsJoin
  \/ ObserveCall
  \/ ObserveReturn
  \/ StableToolCall
  \/ StableToolReturned
  \/ StableToolThrew
  \/ StableToolShotDone
  \/ StableToolShotFail
  \/ WfeCall
  \/ WfeCaptureDone
  \/ WfeCaptureFail
  \/ WfeDelayDone
  \/ WfeObsReturn
  \/ TapCall
  \/ TapPollDone
  \/ TapDelayDone
  \/ TapSingleDone
  \/ TapCaptureFail
  \/ TapTapDone
  \/ TapTapFail
  \/ TapObsReturn
  \/ FilterApply
  \/ HashApply
  \/ GutCall
  \/ GutListDone
  \/ GutListFail
  \/ GutSettleDone
  \/ GutTtyDone
  \/ GutTtyFail
  \/ GutFileDumpDone
  \/ GutFileDumpFail
  \/ GutFileCatDone
  \/ GutFileCatFail
  \/ GutRmDone
  \/ PeerFileDumpDone
  \/ PeerFileCatDone
  \/ GfdCall
  \/ GfdListDone
  \/ GfdListFail
  \/ PkCall
  \/ PkListDone
  \/ PkListFail
  \/ PkProbeDone
  \/ PkPressDone
  \/ PkPressFail
  \/ IgtCall
  \/ IgtListDone
  \/ IgtProbeDone
  \/ IgtDescribeDone
  \/ IgtDescribeFail
  \/ ActCall
  \/ ActInfoDone
  \/ ActInfoFail
  \/ ActDone
  \/ ActFail
  \/ ActObsReturn

Spec == Init /\ [][Next]_vars

\* The handlers that contain a polling loop: observe (through
\* waitForStableUiTree), wait_for_stable, wait_for_element and tap_element.
LoopTools == {"observe", "wait_for_stable", "wait_for_element", "tap_element"}

LoopInit == Init /\ tool \in LoopTools

\* The steps of the handlers of LoopTools.
LoopNext ==
  \/ WaitCaptureDone
  \/ WaitCaptureFail
  \/ WaitDelayDone
  \/ ObsStableReturned
  \/ ObsStableThrew
  \/ ObsDelayDone
  \/ ObsTreeDone
  \/ ObsTreeFail
  \/ ObsShotDone
  \/ ObsShotFail
  \/ ObsJoin
  \/ ObserveCall
  \/ ObserveReturn
  \/ StableToolCall
  \/ StableToolReturned
  \/ StableToolThrew
  \/ StableToolShotDone
  \/ StableToolShotFail
  \/ WfeCall
  \/ WfeCaptureDone
  \/ WfeCaptureFail
  \/ WfeDelayDone
  \/ WfeObsReturn
  \/ TapCall
  \/ TapPollDone
  \/ TapDelayDone
  \/ TapSingleDone
  \/ TapCaptureFail
  \/ TapTapDone
  \/ TapTapFail
  \/ TapObsReturn

\* Every step of LoopNext is the settlement of a pending promise (a device
\* query that returns or fails in finite time, a timer that fires) or the
\* first synchronous segment of a handler: the event loop runs each one.
FairSpec == LoopInit /\ [][LoopNext]_vars /\ WF_vars(LoopNext)

(***************************************************************************)
(* Properties of waitForStableUiTree.                                      *)
(***************************************************************************)
LastCapture == lastCaps[Len(lastCaps)]
Sig(i) == hashUiTree(lastCaps[i])

\* C1: whenever waitForStableUiTree returns through the convergence branch,
\* at least two captures were taken in this call and the signatures of the
\* last two captures are equal.
C1_ConvergenceNeedsTwoCaptures ==
  wvia = "converged" =>
    /\ nCaptures >= 2
    /\ Len(lastCaps) >= 2
    /\ Sig(Len(lastCaps) - 1) = Sig(Len(lastCaps))

C1_Witness ==
  /\ wvia = "converged"
  /\ nCaptures = 2
  /\ lastCaps[1] # lastCaps[2]

\* C2 as stated: every call of waitForStableUiTree that returns without an
\* error has taken at least two captures.
C2_Original == wpc = "returned" => nCaptures >= 2

\* C2 amended: a call that returns after fewer than two captures returned
\* through the timeout branch with the deadline reached; it took no capture
\* at all exactly when timeoutMs <= 0, and then returns the empty list.
C2_FewCapturesOnlyOnDeadline ==
  wpc = "returned" /\ nCaptures < 2 =>
    /\ wvia = "timeout"
    /\ now - start >= timeoutMs
    /\ (nCaptures = 0 <=> timeoutMs <= 0)
    /\ (nCaptures = 0 => wret = Some(<<>>))

C2_Witness ==
  /\ wpc = "returned"
  /\ nCaptures = 1
  /\ timeoutMs > 0

\* the capture sequence of C3: three captures, the first two differ by
\* signature, the last two agree
C3_Sequence ==
  /\ nCaptures = 3
  /\ Sig(1) # Sig(2)
  /\ Sig(2) = Sig(3)

C3_ReturnsThird ==
  /\ wpc = "returned"
  /\ wvia = "converged"
  /\ wret = Some(lastCaps[3])

C4_SoftTimeout ==
  /\ wvia = "timeout" =>
       /\ wpc = "returned"
       /\ wret = Some(IF nCaptures = 0 THEN <<>> ELSE LastCapture)
  /\ ( \/ wpc = "threw"
       \/ opc = "threw"
       \/ (tool \in {"observe", "wait_for_stable"} /\ reply.kind = "threw") )
     => failure # "none"

C4_Witness ==
  /\ wvia = "timeout"
  /\ nCaptures >= 2
  /\ wret = Some(LastCapture)
  /\ failure = "none"

(***************************************************************************)
(* Properties of the polling loops.                                        *)
(***************************************************************************)
ArgTimeout == IF args.timeout_ms = Undefined THEN 10000 ELSE args.timeout_ms[1]

\* a capture started by a polling loop is in flight; no time has passed
\* since it was started
DetectorCapturing == wpc = "capturing"
ToolLoopCapturing ==
  tool \in {"wait_for_element", "tap_element"} /\ tpc = "polling"

\* every capture of a loop was started with elapsed time < timeout
CaptureWithinDeadline ==
  /\ DetectorCapturing => now - start < timeoutMs
  /\ ToolLoopCapturing => now - lstart < ArgTimeout

DetectorPolling == wpc \in {"capturing", "sleeping"}
ToolLoopPolling ==
  tool \in {"wait_for_element", "tap_element"} /\ tpc \in {"polling", "sleeping"}

\* C5: every polling loop (waitForStableUiTree, wait_for_element, the
\* wait_for loop of tap_element) starts a capture only while the elapsed
\* time is below its timeout, and is eventually left.
C5_LoopsTerminate ==
  /\ []CaptureWithinDeadline
  /\ DetectorPolling ~> ~DetectorPolling
  /\ ToolLoopPolling ~> ~ToolLoopPolling
  /\ <>(tpc = "done")

C5_Witness ==
  /\ tool = "wait_for_element"
  /\ tpc = "done"
  /\ reply.kind = "content"
  /\ reply.isError
  /\ treeCalls >= 3
  /\ now - lstart >= ArgTimeout

(***************************************************************************)
(* Properties of performObservation (direct call).                         *)
(***************************************************************************)
Observing == tool = "observe" /\ tpc # "start"
ObserveDone == tool = "observe" /\ tpc = "done" /\ reply.kind = "returned"

\* C6: with mode=none performObservation starts no tree capture, no
\* screenshot capture and no wait, and returns undefined.
C6_ModeNoneDoesNothing ==
  tool = "observe" /\ args.mode = "none" =>
    /\ treeCalls = 0
    /\ shotCalls = 0
    /\ now = 0
    /\ wpc = "idle"
    /\ opc \in {"idle", "returned"}
    /\ tpc = "done" => reply.kind = "returned" /\ reply.observation = Undefined

C6_Witness ==
  /\ tool = "observe"
  /\ args.mode = "none"
  /\ args.stabilize = Some(TRUE)
  /\ tpc = "done"

C8_FieldsFollowMode ==
  ObserveDone /\ args.mode # "none" =>
    LET r == reply.observation[1] IN
    /\ r.uiTree # Undefined <=> args.mode \in {"ui_tree", "both"}
    /\ r.screenshot # Undefined <=> args.mode \in {"screenshot", "both"}
    /\ treeVal = Some(<<>>) => r.uiTree = Some(<<>>)

C8_Witness ==
  /\ ObserveDone
  /\ args.mode = "ui_tree"
  /\ treeVal = Some(TreeBar)
  /\ reply.observation[1].uiTree = Some(<<>>)

\* C9 as stated: no tree capture is invoked unless mode includes the tree
\* and no screenshot capture unless mode includes the screenshot.
C9_Original ==
  tool = "observe" =>
    /\ args.mode \notin {"ui_tree", "both"} => treeCalls = 0
    /\ args.mode \notin {"screenshot", "both"} => shotCalls = 0

\* C9 amended: no screenshot capture is invoked unless mode includes the
\* screenshot; no tree capture is invoked unless mode includes the tree or
\* stabilize is set with a mode other than none.
C9_CapturesFollowMode ==
  tool = "observe" =>
    /\ args.mode \notin {"screenshot", "both"} => shotCalls = 0
    /\ args.mode \notin {"ui_tree", "both"} /\ args.stabilize # Some(TRUE)
         => treeCalls = 0
    /\ args.mode = "none" => treeCalls = 0

C9_Witness ==
  /\ ObserveDone
  /\ args.mode = "screenshot"
  /\ args.stabilize # Some(TRUE)
  /\ args.delayMs = Some(700)
  /\ shotCalls = 1

\* no capture of the fan-out has completed yet
FanOutJustStarted ==
  /\ opc = "capturing"
  /\ treeSt \in {"pending", "skipped"}
  /\ shotSt \in {"pending", "skipped"}

\* C10: if stabilize is set the detector runs, with poll interval
\* stabilizePollMs (default 500) and timeout stabilizeTimeoutMs (default
\* 10000), and delayMs is ignored; else if delayMs > 0 the capture starts
\* after delayMs; else it starts at once.  No capture of the fan-out is
\* started while the wait is running.
C10_TimingPrecedence ==
  Observing /\ args.mode # "none" =>
    /\ args.stabilize = Some(TRUE) =>
         /\ waited = "stabilize"
         /\ opc = "stabilizing" =>
              /\ pollIntervalMs =
                   (IF args.stabilizePollMs = Undefined THEN 500
                    ELSE args.stabilizePollMs[1])
              /\ timeoutMs =
                   (IF args.stabilizeTimeoutMs = Undefined THEN 10000
                    ELSE args.stabilizeTimeoutMs[1])
         /\ opc # "stabilizing" => wpc = "idle"
    /\ args.stabilize # Some(TRUE) =>
         /\ wpc = "idle"
         /\ IF args.delayMs # Undefined /\ args.delayMs[1] > 0
            THEN /\ waited = "delay"
                 /\ FanOutJustStarted => now = args.delayMs[1]
            ELSE /\ waited = "none"
                 /\ opc # "delaying"
                 /\ FanOutJustStarted => now = 0
    /\ opc \in {"stabilizing", "delaying"} =>
         /\ treeSt = "skipped"
         /\ shotSt = "skipped"
         /\ shotCalls = 0

C10_Witness ==
  /\ Observing
  /\ args.mode = "both"
  /\ args.stabilize = Some(TRUE)
  /\ args.delayMs = Some(700)
  /\ args.stabilizePollMs = Undefined
  /\ FanOutJustStarted
  /\ now > 700

(***************************************************************************)
(* Properties of performObservation: the tree returned.                    *)
(***************************************************************************)
\* a call of performObservation with stabilize and mode ui_tree has returned
StableTreeDone ==
  /\ ObserveDone
  /\ args.mode = "ui_tree"
  /\ args.stabilize = Some(TRUE)

\* C11 as stated: with stabilize and mode=ui_tree the tree returned is the
\* tree the detector returned, filtered, and no tree fetch is started after
\* the detector has returned.
C11_Original ==
  StableTreeDone =>
    /\ settled # Undefined
    /\ treeCalls = settled[1].calls
    /\ reply.observation[1].uiTree =
         Some(filterUiElements(settled[1].tree, args.filterUi = Some(FALSE)))

\* C11 amended: with stabilize and mode=ui_tree exactly one tree fetch is
\* started after the detector has returned, and the tree returned is the
\* tree of that fetch, filtered; the tree the detector returned is dropped.
C11_FreshFetchAfterSettle ==
  StableTreeDone =>
    /\ settled # Undefined
    /\ treeCalls = settled[1].calls + 1
    /\ treeVal # Undefined
    /\ reply.observation[1].uiTree =
         Some(filterUiElements(treeVal[1], args.filterUi = Some(FALSE)))

C11_Witness ==
  /\ StableTreeDone
  /\ settled # Undefined
  /\ settled[1].tree = TreeOk1
  /\ settled[1].calls = 2
  /\ treeVal = Some(TreeHello)
  /\ reply.observation[1].uiTree = Some(<<ElClock1, ElHello, ElOk>>)

\* C12: performObservation calls filterUiElements with includeAll = true
\* when filterUi is false and with includeAll = false when filterUi is true
\* or omitted; it calls the filter exactly once, on the tree captured by the
\* fan-out and not before the fan-out has resolved, and the value of that
\* call is the uiTree returned.
C12_FilterFlagInverted ==
  /\ opc # "returned" => filterArgs = <<>>
  /\ opc = "returned" /\ opts.mode \in {"ui_tree", "both"} =>
       /\ Len(filterArgs) = 1
       /\ filterArgs[1].elements = treeVal[1]
       /\ filterArgs[1].includeAll = (opts.filterUi = Some(FALSE))
       /\ result[1].uiTree =
            Some(filterUiElements(filterArgs[1].elements,
                                  filterArgs[1].includeAll))
  /\ opc = "returned" /\ opts.mode \notin {"ui_tree", "both"} =>
       filterArgs = <<>>

C12_Witness ==
  /\ tool = "observe"
  /\ opc = "returned"
  /\ args.filterUi = Some(FALSE)
  /\ treeVal = Some(TreeOk1)
  /\ filterArgs = << [elements |-> TreeOk1, includeAll |-> TRUE] >>
  /\ result[1].uiTree = Some(TreeOk1)

(***************************************************************************)
(* Properties of filterUiElements.                                         *)
(***************************************************************************)
FilterDone == tool = "filterUiElements" /\ tpc = "done"

\* an element the default filter is to keep
Interesting(el) == Trim(el.text) # <<>> \/ el.clickable = TRUE

\* the positions of the input holding such elements
KeptPositions ==
  { i \in 1..Len(args.elements) : Interesting(args.elements[i]) }

\* the j-th of them, counting upwards
KeptPosition(j) ==
  CHOOSE i \in KeptPositions :
    Cardinality({ k \in KeptPositions : k < i }) = j - 1

\* C13: with includeAll false (or omitted) filterUiElements returns exactly
\* the elements whose trimmed text is non-empty or whose clickable flag is
\* true, each once, in the order of the input; every element it drops has
\* empty trimmed text and is not clickable.
C13_FilterKeepsInteresting ==
  FilterDone /\ args.includeAll # Some(TRUE) =>
    /\ Len(reply.value) = Cardinality(KeptPositions)
    /\ \A j \in 1..Len(reply.value) :
         reply.value[j] = args.elements[KeptPosition(j)]

C13_Witness ==
  /\ FilterDone
  /\ args.includeAll = Undefined
  /\ Len(args.elements) = 3
  /\ args.elements[1].text = <<" ">> /\ ~args.elements[1].clickable
  /\ args.elements[2].text = <<"H", "i">> /\ ~args.elements[2].clickable
  /\ args.elements[3].text = <<>> /\ args.elements[3].clickable
  /\ reply.value = <<args.elements[2], args.elements[3]>>

\* C14: with includeAll true filterUiElements returns its input unchanged:
\* the same elements in the same order, those with empty text and
\* clickable false included.
C14_IncludeAllIsIdentity ==
  FilterDone /\ args.includeAll = Some(TRUE) => reply.value = args.elements

C14_Witness ==
  /\ FilterDone
  /\ args.includeAll = Some(TRUE)
  /\ Len(args.elements) = 3
  /\ args.elements[1].text = <<>> /\ ~args.elements[1].clickable
  /\ args.elements[2].text = <<" ">> /\ ~args.elements[2].clickable
  /\ args.elements[3].text = <<"H", "i">>
  /\ Len(reply.value) = 3

(***************************************************************************)
(* Properties of android.getUiTree.                                        *)
(***************************************************************************)
GutRunning == tool = "android.getUiTree"

\* the outcomes after which the loop goes on
FailedOutcomes == {"threw", "no xml", "no elements"}

\* the order of retrieval: direct, file, delayed direct, delayed file
RetrievalOrder ==
  << [via |-> "tty", delayMs |-> 0], [via |-> "file", delayMs |-> 0],
     [via |-> "tty", delayMs |-> 800], [via |-> "file", delayMs |-> 800] >>

\* the dump commands issued so far
DumpsIssued ==
  SelectSeq(commands, LAMBDA c : c.cmd \in {"dump /dev/tty", "dump file"})

LastAttempt == attempts[Len(attempts)]

\* C15: the strategies are started in the order direct, file, delayed
\* direct, delayed file, and their dumps are issued in that order; a
\* strategy is started only after every earlier one threw, yielded no XML or
\* yielded zero elements; the first strategy whose dump parses to at least
\* one element ends the call with that element list; a strategy that failed
\* is followed at once by the next one, unless it was the fourth.
C15_StrategiesInOrder ==
  GutRunning =>
    /\ Len(attempts) <= 4
    /\ \A i \in 1..Len(attempts) : attempts[i].strategy = RetrievalOrder[i]
    /\ \A i \in 1..(Len(attempts) - 1) : attempts[i].outcome \in FailedOutcomes
    /\ Len(DumpsIssued) = Len(attempts) - (IF tpc = "settling" THEN 1 ELSE 0)
    /\ \A i \in 1..Len(DumpsIssued) :
         DumpsIssued[i].cmd =
           (IF RetrievalOrder[i].via = "tty" THEN "dump /dev/tty"
            ELSE "dump file")
    /\ Len(attempts) > 0 /\ LastAttempt.outcome = "elements" =>
         /\ tpc = "done"
         /\ reply.kind = "returned"
         /\ reply.value = LastAttempt.elements
         /\ Len(reply.value) > 0
    /\ Len(attempts) > 0 /\ LastAttempt.outcome \in FailedOutcomes =>
         Len(attempts) = 4
    /\ tpc = "done" /\ reply.kind = "returned" =>
         LastAttempt.outcome = "elements"

C15_Witness ==
  /\ GutRunning
  /\ tpc = "done"
  /\ reply.kind = "returned"
  /\ Len(attempts) = 3
  /\ attempts[1].outcome = "threw"
  /\ attempts[2].outcome = "no elements"
  /\ Len(reply.value) = 2

\* every strategy of the call was tried and none yielded an element
AllFourFailed ==
  /\ Len(attempts) = 4
  /\ \A i \in 1..4 : attempts[i].outcome \in FailedOutcomes

\* C16: android.getUiTree fails with the TreeParseError if and only if all
\* four strategies failed or produced zero elements; it makes at most four
\* strategy attempts and never returns an empty element list.
C16_ParseErrorIffAllFailed ==
  GutRunning =>
    /\ (tpc = "done" /\ reply.kind = "threw" /\ reply.error = "TreeParseError")
         <=> AllFourFailed
    /\ Len(attempts) <= 4
    /\ tpc = "done" /\ reply.kind = "returned" => reply.value # <<>>

C16_Witness ==
  /\ GutRunning
  /\ tpc = "done"
  /\ reply.kind = "threw"
  /\ reply.error = "TreeParseError"
  /\ attempts[1].outcome = "no xml"
  /\ attempts[2].outcome = "threw"
  /\ attempts[3].outcome = "no elements"
  /\ attempts[4].outcome = "no elements"

(***************************************************************************)
(* Properties of hashUiTree.                                               *)
(***************************************************************************)
HashDone == tool = "hashUiTree" /\ tpc = "done"

\* an element of the status band: y < 60 and height < 60
InStatusBand(el) == el.bounds.y < 60 /\ el.bounds.height < 60

\* a list without its status-band elements
OutsideBand(tree) == SelectSeq(tree, LAMBDA el : ~InStatusBand(el))

\* list t with its i-th element taken out
Without(t, i) == SubSeq(t, 1, i - 1) \o SubSeq(t, i + 1, Len(t))

\* C17: two trees that differ only in status-band elements (added, removed
\* or changed) have the same signature; a tree and the same tree with one
\* more element that is outside the band (y >= 60, or y < 60 with height
\* >= 60) have different signatures.  In the detector a capture that
\* differs from the previous one only in status-band elements ends the
\* polling as an identical capture would: polling goes on after it only
\* when the signature is empty.
C17_BandElementsIgnored ==
  /\ HashDone /\ OutsideBand(args.a) = OutsideBand(args.b) =>
       reply.value[1] = reply.value[2]
  /\ HashDone =>
       \A i \in 1..Len(args.b) :
         Without(args.b, i) = args.a /\ ~InStatusBand(args.b[i]) =>
           reply.value[1] # reply.value[2]
  /\ wpc = "sleeping" /\ Len(lastCaps) >= 2
       /\ OutsideBand(lastCaps[Len(lastCaps) - 1]) = OutsideBand(LastCapture)
       => hashUiTree(LastCapture) = <<>>

C17_Witness ==
  /\ HashDone
  /\ Len(args.a) = 2
  /\ Len(args.b) = 2
  /\ InStatusBand(args.a[1]) /\ args.a[1].text = <<"a">>
  /\ args.a[2].bounds.y = 59 /\ args.a[2].bounds.height = 60
  /\ args.b[1] = args.a[2]
  /\ InStatusBand(args.b[2]) /\ args.b[2].text = <<"b">>
  /\ reply.value[1] = reply.value[2]
  /\ reply.value[1] # <<>>

(***************************************************************************)
(* Properties of performObservation: the fan-out.                          *)
(***************************************************************************)
ObservingBoth == tool = "observe" /\ args.mode = "both"

\* both captures are started or neither is; neither is started during the
\* wait; the call has returned only with both completed
BothInFlight ==
  ObservingBoth =>
    /\ treeSt = "skipped" <=> shotSt = "skipped"
    /\ opc \in {"idle", "stabilizing", "delaying"} =>
         treeSt = "skipped" /\ shotSt = "skipped"
    /\ opc = "returned" => treeSt = "ok" /\ shotSt = "ok"

\* the two captures are started in one step, and the step that settles one
\* of them leaves the state of the other as it is
CapturesApart ==
  ObservingBoth =>
    /\ treeSt = "skipped" /\ treeSt' # "skipped" =>
         treeSt' = "pending" /\ shotSt' = "pending"
    /\ treeSt = "pending" /\ treeSt' # "pending" => shotSt' = shotSt
    /\ shotSt = "pending" /\ shotSt' # "pending" =>
         treeSt' = treeSt /\ treeVal' = treeVal

\* C18: with mode=both the tree capture and the screenshot capture are
\* both started after the wait and before either has completed, the call
\* returns only after both have completed, and the completion of either
\* capture changes nothing of the other.
C18_FanOut == []BothInFlight /\ [][CapturesApart]_vars

C18_Witness ==
  /\ ObservingBoth
  /\ waited = "delay"
  /\ opc = "capturing"
  /\ shotSt = "ok"
  /\ treeSt = "pending"

(***************************************************************************)
(* Properties of getFirstDeviceId.                                         *)
(***************************************************************************)
GfdDone == tool = "getFirstDeviceId" /\ tpc = "done"

\* the statuses with which a device can be used
UsableStatuses(platform) ==
  IF platform = "android" THEN {"device"} ELSE {"booted", "connected"}

\* the positions of the enumeration whose status is in S
PositionsWith(S) ==
  { i \in 1..Len(args.devices) : args.devices[i].status \in S }

\* the id of the first device of the enumeration whose status is in S
FirstWith(S) ==
  args.devices[CHOOSE i \in PositionsWith(S) :
                 \A j \in PositionsWith(S) : i <= j].id

\* C19: once the enumeration has resolved, getFirstDeviceId fails with the
\* no-device error exactly when no device has a usable status.  On Android
\* it returns the first device whose status is "device"; on iOS it returns
\* the first "booted" device when there is one and otherwise the first
\* "connected" device.
C19_FirstUsableDevice ==
  GfdDone /\ ~(reply.kind = "threw" /\ reply.error = "ExecutionError") =>
    /\ (reply.kind = "threw" /\ reply.error = "NoDeviceError")
         <=> PositionsWith(UsableStatuses(args.platform)) = {}
    /\ reply.kind = "returned" /\ args.platform = "android" =>
         reply.value = FirstWith({"device"})
    /\ reply.kind = "returned" /\ args.platform = "ios" =>
         reply.value = (IF PositionsWith({"booted"}) # {}
                        THEN FirstWith({"booted"})
                        ELSE FirstWith({"connected"}))

C19_Witness ==
  /\ GfdDone
  /\ args.platform = "android"
  /\ Len(args.devices) = 3
  /\ args.devices[1].status = "unauthorized"
  /\ args.devices[2].status = "device"
  /\ args.devices[3].status = "device"
  /\ reply.kind = "returned"
  /\ reply.value = <<"d", "2">>

(***************************************************************************)
(* Properties of pressKey.                                                 *)
(***************************************************************************)
\* the symbolic names of the key tables
KeyTableNames ==
  {"home", "back", "enter", "delete", "volume_up", "volume_down", "power",
   "tab", "recent_apps"}

KeyPresses == SelectSeq(commands, LAMBDA c : c.cmd \in KeyPressCommands)

\* C20 as stated: pressKey with a name that is not in the key table fails
\* with the UnknownKeyError, with or without a deviceId and whatever
\* devices are connected, and issues no key-press command.
C20_Original ==
  tool = "pressKey" /\ args.key \notin KeyTableNames =>
    /\ KeyPresses = <<>>
    /\ tpc = "done" =>
         reply.kind = "threw" /\ reply.error = "UnknownKeyError"

C27_Original ==
  HashDone /\ reply.value[1] = reply.value[2] =>
    OutsideBand(args.a) = OutsideBand(args.b)

(***************************************************************************)
(* Failure of a capture inside a polling loop.                             *)
(***************************************************************************)
\* the step in which a device query fails
QueryFails == failure = "none" /\ failure' # "none"

\* the capture of waitForStableUiTree fails: the call throws, with no value
\* returned and no capture started
DetectorThrows ==
  DetectorCapturing /\ QueryFails =>
    /\ wpc' = "threw"
    /\ wret' = Undefined
    /\ wvia' = "none"
    /\ treeCalls' = treeCalls
    /\ shotCalls' = shotCalls

\* the exception of waitForStableUiTree reaches its caller in the next step,
\* at the time of the failure, with no capture started and no fan-out
DetectorThrowPropagates ==
  wpc = "threw" =>
    /\ now' = now
    /\ treeCalls' = treeCalls
    /\ shotCalls' = shotCalls
    /\ wpc' = "idle"
    /\ IF tool = "wait_for_stable"
       THEN tpc' = "done" /\ reply' = [kind |-> "threw"]
       ELSE opc' = "threw" /\ treeSt' = "skipped" /\ shotSt' = "skipped"

\* the capture of the loop of wait_for_element or tap_element fails: the
\* handler throws in that step, with no capture, tap or observation started
ToolLoopThrows ==
  ToolLoopCapturing /\ QueryFails =>
    /\ tpc' = "done"
    /\ reply' = [kind |-> "threw"]
    /\ treeCalls' = treeCalls
    /\ shotCalls' = shotCalls
    /\ taps' = taps
    /\ opc' = "idle"

\* once a capture of a polling loop has failed no capture is started
NoCaptureAfterLoopFailure ==
  failure = "tree" /\ opc \in {"idle", "stabilizing", "threw"}
    /\ treeSt = "skipped" =>
    treeCalls' = treeCalls /\ shotCalls' = shotCalls

\* C24: a failure of one tree capture inside waitForStableUiTree, or inside
\* the loop of wait_for_element or tap_element, leaves the loop at once: the
\* call throws at the time of the failure, returns no tree (not the previous
\* capture either), and starts no further capture.
C24_CaptureFailurePropagates ==
  /\ [](wpc = "threw" => wret = Undefined /\ failure = "tree")
  /\ [][DetectorThrows]_vars
  /\ [][DetectorThrowPropagates]_vars
  /\ [][ToolLoopThrows]_vars
  /\ [][NoCaptureAfterLoopFailure]_vars

\* the second capture of the detector failed before the deadline, after a
\* first capture that could have been returned; the caller has the exception
C24_Witness ==
  /\ tool = "wait_for_stable"
  /\ tpc = "done"
  /\ reply = [kind |-> "threw"]
  /\ failure = "tree"
  /\ treeCalls = 2
  /\ now < Coalesce(args.timeout_ms, DefaultTimeoutMs)

(***************************************************************************)
(* How a wait ends.                                                        *)
(***************************************************************************)
\* the steps that end a polling wait or the fixed delay of performObservation
DetectorWaitEnds == DetectorPolling /\ ~DetectorPolling'
WfeWaitEnds ==
  tool = "wait_for_element" /\ ToolLoopPolling /\ ~ToolLoopPolling'
TapWaitEnds ==
  tool = "tap_element" /\ ToolLoopPolling /\ ~ToolLoopPolling'
DelayWaitEnds == opc = "delaying" /\ opc' # "delaying"

\* the detector ends by convergence or at its deadline
DetectorEndsNormally ==
  \/ wpc' = "returned" /\ wvia' = "converged"
  \/ wpc' = "returned" /\ wvia' = "timeout" /\ now' - start >= timeoutMs

\* wait_for_element ends by a match or at its deadline
WfeEndsNormally ==
  \/ /\ tpc' = "observing"
     /\ Len(matches') > 0
     /\ matches' = WfeMatches(lastTree', args)
  \/ /\ tpc' = "done"
     /\ reply'.kind = "content" /\ reply'.isError
     /\ now' - lstart >= WfeTimeout(args)

\* the wait_for loop of tap_element ends by a match at the index or at its
\* deadline
TapEndsNormally ==
  \/ tpc' = "tapping" /\ target' # Undefined
  \/ reply' = TapErrorReply("timeout") /\ now' - lstart >= TapTimeout(args)

\* the delay ends when its timer fires
DelayEndsNormally ==
  /\ now' - now >= opts.delayMs[1]
  /\ opc' = "capturing"

\* a wait ends because its capture failed
EndsByFailure == QueryFails /\ failure' = "tree"

\* the wait_for loop of tap_element ends at a capture without a target:
\* matches.length > index holds for a negative index whatever the matches
\* are, and matches[index] is undefined
TapEndsWithoutTarget ==
  /\ TapTargetIndex(args) < 0
  /\ target' = Undefined
  /\ reply' = TapErrorReply("timeout")

\* C23 as stated: a polling wait or a delay wait that has started ends only
\* by match or convergence or by reaching its own deadline.
C23_Original ==
  [][ /\ DetectorWaitEnds => DetectorEndsNormally
      /\ WfeWaitEnds => WfeEndsNormally
      /\ TapWaitEnds => TapEndsNormally
      /\ DelayWaitEnds => DelayEndsNormally ]_vars

\* C23 amended: a polling wait ends only by match or convergence, by
\* reaching its own deadline, or by the failure of one of its captures,
\* which throws at once; the wait_for loop of tap_element called with a
\* negative index also ends at its first capture, with the timeout error
\* and without a target.  The delay wait ends only when its timer fires.
C23_WaitsEndByTestDeadlineOrFailure ==
  [][ /\ DetectorWaitEnds => DetectorEndsNormally \/ EndsByFailure
      /\ WfeWaitEnds => WfeEndsNormally \/ EndsByFailure
      /\ TapWaitEnds =>
           TapEndsNormally \/ EndsByFailure \/ TapEndsWithoutTarget
      /\ DelayWaitEnds => DelayEndsNormally ]_vars

\* the wait_for loop of tap_element ran to its deadline over several
\* captures, none of which failed
C23_Witness ==
  /\ tool = "tap_element"
  /\ TapTargetIndex(args) >= 0
  /\ reply = TapErrorReply("timeout")
  /\ treeCalls >= 2
  /\ failure = "none"
  /\ now - lstart >= TapTimeout(args)

(***************************************************************************)
(* Properties of wait_for_element.                                         *)
(***************************************************************************)
WfeRunning == tool = "wait_for_element"
WfeDone == WfeRunning /\ tpc = "done"

\* the supplied criteria that element el fails
FailedCriteria(el) ==
  { c \in {"text_exact", "text_contains", "type_contains", "clickable"} :
      /\ args[c] # Undefined
      /\ CASE c = "text_exact" -> el.text # args.text_exact[1]
           [] c = "text_contains" ->
                ~Includes(ToLowerCase(el.text),
                          ToLowerCase(args.text_contains[1]))
           [] c = "type_contains" ->
                ~Includes(ToLowerCase(el.type),
                          ToLowerCase(args.type_contains[1]))
           [] c = "clickable" -> el.clickable # args.clickable[1] }

SatisfiesAll(el) == FailedCriteria(el) = {}

\* the last captured tree holds an element satisfying every criterion
LastTreeMatches == \E i \in 1..Len(lastTree) : SatisfiesAll(lastTree[i])

WfeFound == WfeDone /\ reply.kind = "content" /\ ~reply.isError

\* the timeout error, carrying the default-filtered last tree
WfeTimedOut ==
  /\ WfeDone
  /\ reply.kind = "content"
  /\ reply.isError
  /\ reply.uiTree = SelectSeq(lastTree, Interesting)
  /\ now - lstart >= ArgTimeout

\* C25 as stated: wait_for_element returns the non-error "Found" result
\* exactly when a captured tree held a matching element; otherwise it
\* returns, at the deadline, the error carrying the default-filtered tree of
\* the last capture.
C25_Original ==
  WfeDone =>
    /\ WfeFound <=> LastTreeMatches
    /\ ~WfeFound => WfeTimedOut

\* the observation made after a match: no delay and no stabilization
ObservedAtOnce ==
  /\ opts # Undefined
  /\ opts.delayMs = Some(0)
  /\ opts.stabilize = Some(FALSE)
  /\ waited = "none"
  /\ wpc = "idle"

\* polling has stopped: no later capture replaces the last tree
WfePollingStopped ==
  WfeRunning /\ tpc \in {"observing", "done"} => lastTree' = lastTree

\* C25 amended: while no device query fails, wait_for_element returns the
\* "Found" result exactly when a captured tree held an element satisfying
\* all supplied criteria; it stops polling at the first such capture, lists
\* the matching elements of that capture, and observes with no delay and no
\* stabilization; otherwise it returns, with the deadline reached, the
\* error carrying the default-filtered tree of the last capture (the empty
\* list when the timeout is not positive and no capture was made).  When a
\* tree capture or the observation after the match fails, the handler
\* throws instead.
C25_FoundIffMatched ==
  /\ [](WfeRunning /\ tpc = "sleeping" => ~LastTreeMatches)
  /\ [](WfeRunning /\ tpc = "observing" =>
          /\ LastTreeMatches
          /\ matches = SelectSeq(lastTree, SatisfiesAll)
          /\ ObservedAtOnce)
  /\ [](WfeFound =>
          /\ LastTreeMatches
          /\ reply.matches = SelectSeq(lastTree, SatisfiesAll)
          /\ ObservedAtOnce)
  /\ [](WfeDone /\ failure = "none" =>
          /\ WfeFound <=> LastTreeMatches
          /\ ~WfeFound => WfeTimedOut /\ (treeCalls = 0 <=> ArgTimeout <= 0))
  /\ [](WfeDone /\ failure # "none" => reply = [kind |-> "threw"])
  /\ [][WfePollingStopped]_vars

\* found at the third capture, after two captures without a match
C25_Witness ==
  /\ WfeFound
  /\ args.observe = Undefined
  /\ treeCalls = 3
  /\ Len(reply.matches) = 1
  /\ Len(lastTree) > 1

(***************************************************************************)
(* Properties of tap_element.                                              *)
(***************************************************************************)
TapRunning == tool = "tap_element"

\* element el satisfies the text criteria that were given
TextCriteriaHold(el) ==
  /\ args.text_exact = Undefined \/ el.text = args.text_exact[1]
  /\ args.text_contains = Undefined \/
       Includes(ToLowerCase(el.text), ToLowerCase(args.text_contains[1]))

\* the elements of the last captured tree that satisfy them, in tree order
LastTreeCandidates == SelectSeq(lastTree, TextCriteriaHold)

RequestedIndex == IF args.index = Undefined THEN 0 ELSE args.index[1]

\* the tap that was issued went to the centre of the candidate at the
\* requested 0-based index
TapAtRequestedCandidate ==
  /\ Len(taps) = 1
  /\ RequestedIndex >= 0
  /\ RequestedIndex < Len(LastTreeCandidates)
  /\ taps[1] = << LastTreeCandidates[RequestedIndex + 1].center_x,
                  LastTreeCandidates[RequestedIndex + 1].center_y >>

\* the handler ended on an error path without having called the tap
\* command: an error reply, a failed capture, or the exception raised when
\* the target is undefined
TapErrorPath ==
  /\ TapRunning
  /\ tpc = "done"
  /\ \/ reply.kind = "content" /\ reply.isError
     \/ reply.kind = "threw" /\ failure \in {"none", "tree"} /\ opts = Undefined

\* performObservation was never called
NoObservationMade == opts = Undefined /\ opc = "idle" /\ shotCalls = 0

\* C29: tap_element issues at most one tap, and only at the centre of the
\* element that matched the text criteria at the requested 0-based index in
\* the most recently captured tree; on every error path (no text criterion,
\* no match, index beyond the matches, wait_for timeout, and also a failed
\* capture or an index below zero) no tap is issued and no observation is
\* made.  No capture is made without a text criterion.
C29_TapOnlyAtMatchedElement ==
  /\ TapRunning /\ taps # <<>> => TapAtRequestedCandidate
  /\ TapErrorPath => taps = <<>> /\ NoObservationMade
  /\ TapRunning /\ tpc = "done"
       /\ FalsyString(args.text_contains) /\ FalsyString(args.text_exact) =>
       reply = TapErrorReply("no criterion") /\ treeCalls = 0
  /\ TapRunning /\ tpc = "done" /\ RequestedIndex < 0 => taps = <<>>

\* the second of two matching elements was tapped
C29_Witness ==
  /\ TapRunning
  /\ tpc = "done"
  /\ reply.kind = "content"
  /\ ~reply.isError
  /\ RequestedIndex = 1
  /\ Len(LastTreeCandidates) = 2
  /\ taps = << <<ElOk.center_x, ElOk.center_y>> >>

(***************************************************************************)
(* Properties of performObservation: a failing capture.                    *)
(***************************************************************************)
\* performObservation was called with mode "both"
CalledWithBoth == opts # Undefined /\ opts.mode = "both"

\* a capture of the fan-out has failed
FanOutFailed == treeSt = "failed" \/ shotSt = "failed"

\* a result holding the tree and the screenshot
WholeResult ==
  /\ result # Undefined
  /\ result[1].uiTree # Undefined
  /\ result[1].screenshot # Undefined

\* C30: in performObservation with mode "both", when the tree capture or the
\* screenshot capture fails the call throws and returns no result, whatever
\* the other capture does afterwards; the failure recorded is that of the
\* capture that failed first; a call that returns, returns the tree and the
\* screenshot together.
C30_NoPartialResult ==
  /\ CalledWithBoth /\ FanOutFailed => opc = "threw" /\ result = Undefined
  /\ CalledWithBoth /\ failure # "none" => opc # "returned"
  /\ CalledWithBoth /\ treeSt = "failed" /\ shotSt # "failed" => failure = "tree"
  /\ CalledWithBoth /\ shotSt = "failed" /\ treeSt # "failed" =>
       failure = "screenshot"
  /\ CalledWithBoth /\ opc = "returned" => WholeResult
  /\ tool = "observe" /\ tpc = "done" /\ CalledWithBoth /\ failure # "none" =>
       reply = [kind |-> "threw"]

\* the screenshot failed after the tree had been captured, and the caller
\* got the exception
C30_Witness ==
  /\ tool = "observe"
  /\ tpc = "done"
  /\ CalledWithBoth
  /\ treeSt = "ok"
  /\ treeVal # Undefined
  /\ shotSt = "failed"
  /\ reply = [kind |-> "threw"]

(***************************************************************************)
(* Properties of the action tools.                                         *)
(***************************************************************************)
ActRunning == tool \in ActionTools

\* the platform action of the tool has been called
ActionIssued == commands = << Command(tool) >>

\* performObservation has been called
ObservationStarted == opts # Undefined

\* nothing of an observation has happened: no call, no wait, no capture
NothingObserved ==
  /\ opts = Undefined
  /\ opc = "idle"
  /\ wpc = "idle"
  /\ waited = "none"
  /\ treeCalls = 0
  /\ shotCalls = 0

\* the step that calls performObservation is the one in which the awaited
\* action resolves
ObservationFollowsAction ==
  ActRunning /\ ~ObservationStarted /\ ObservationStarted' =>
    /\ tpc = "acting"
    /\ ActionIssued
    /\ failure' = "none"

\* C21: in each of the eight action tools nothing of the observation (its
\* call, its wait, its captures) happens before the device action has been
\* issued and has resolved; if the action rejects, no observation is made
\* and the handler throws.
C21_ObserveAfterAction ==
  /\ [](ActRunning /\ tpc \in {"start", "info", "acting"} => NothingObserved)
  /\ [](ActRunning /\ ObservationStarted =>
          ActionIssued /\ failure \notin {"action", "info"})
  /\ [](ActRunning /\ failure \in {"action", "info"} =>
          /\ NothingObserved
          /\ tpc = "done"
          /\ reply = [kind |-> "threw"])
  /\ [][ObservationFollowsAction]_vars

\* the action rejected: the handler threw without observing
C21_Witness ==
  /\ tool = "long_press"
  /\ args.observe = Some("both")
  /\ ActionIssued
  /\ failure = "action"
  /\ tpc = "done"
  /\ reply = [kind |-> "threw"]
  /\ NothingObserved

(***************************************************************************)
(* Properties of ios.getUiTree.                                            *)
(***************************************************************************)
IgtRunning == tool = "ios.getUiTree"
IgtDone == IgtRunning /\ tpc = "done"

\* the retrieval commands issued so far, by kind
IdbRetrievals == SelectSeq(commands, LAMBDA c : c.cmd = "idb describe-all")
FallbackRetrievals ==
  SelectSeq(commands, LAMBDA c : c.cmd = "simctl describe-all")

DeviceResolved ==
  args.deviceId # Undefined \/ IosFirstDevice(args.devices) # Undefined

CleanupOfSecondRemoves ==
  /\ dumpFile.exists
  /\ dumpFile' = NoFile(ThisCall(2))

\* strategy 4 of this call has written the file and not yet read it
FourthBetweenDumpAndRead ==
  /\ GutRunning
  /\ tpc = "cat"
  /\ Len(attempts) = 4
  /\ dumpFile = File(ThisCall(4))

\* the file strategy of the second call has written the file and not yet
\* read it
PeerBetweenDumpAndRead ==
  /\ GutRunning
  /\ peer = "cat"
  /\ dumpFile = File(PeerCall)

\* C28: the rm that strategy 2 of a getUiTree call starts and does not
\* await never removes the file that strategy 4 of the same call, or the
\* file strategy of a second call on the same device, has written and not
\* yet read.
C28_Original ==
  [][CleanupOfSecondRemoves =>
       ~FourthBetweenDumpAndRead /\ ~PeerBetweenDumpAndRead]_vars

=============================================================================
